---- MODULE Spec2Model ----
(***************************************************************************)
(* Proof-of-work consensus core of the Vigil node: the block header codec  *)
(* (node/wire/blockheader.go), the two KawPoW hash engines, the PoW        *)
(* verifier and the getwork protocol.                                      *)
(*                                                                         *)
(* Integers of the model stay inside TLC's 32-bit range: every numeric     *)
(* field value drawn below is smaller than 2^31 in magnitude, and sample   *)
(* byte patterns keep the top bit of each byte clear so that a 32-bit      *)
(* little-endian word read at any offset still fits.                       *)
(***************************************************************************)
EXTENDS Integers, Sequences, FiniteSets, TLC

VARIABLES
    hdr,      \* codec: the BlockHeader under test
    enc,      \* codec: result of hdr.Bytes()            [bytes, err]
    encNN,    \* codec: result of hdr.BytesNoNonce()     (a byte slice)
    dec,      \* codec: result of Deserialize(enc.bytes) [hdr, err]
    hx,       \* codec: what KawPow.Hash extracted from enc.bytes
    cpc,      \* codec: position of the codec scenario
    now,      \* hash engines: the wall clock, in seconds
    kps,      \* hash engines: the KawPow instances created by New()
    calls,    \* hash engines: the calls made so far, with what they returned
    tab,      \* hash engines: what New, Hash and PowHashV2 return on the
              \* scenario's inputs, computed in the initial state
    srv,      \* work RPC: the server's configuration and its view of the chain
    work,     \* work RPC: the payload the last work request returned
    rpc,      \* work RPC: the last call of the handler, with what it did
    chainParams,
              \* difficulty: the chain parameters (chaincfg.Params)
    blockIndex,
              \* difficulty: the block index, a tree of blockNodes
    cachedBlake3WorkDiffAnchor,
              \* difficulty: the cached anchor, a node of the index or nil
    dcalls,   \* difficulty: the calls made so far, with what they returned
    dagCaches,
              \* standalone hash engine: the package's map of DAG caches
    chainLock,
              \* BlockChain.chainLock: the goroutine that holds it, or 0
    threads   \* goroutines inside a function of the chain (a public query,
              \* the anchor search, a retarget loop), with their position
              \* and locals

codecVars == <<hdr, enc, encNN, dec, hx, cpc>>

hashVars == <<now, kps, calls, tab>>

workVars == <<srv, work, rpc>>

diffVars == <<chainParams, blockIndex, cachedBlake3WorkDiffAnchor, dcalls>>

dagVars == <<dagCaches>>

lockVars == <<chainLock, threads>>

nonCodecVars == <<hashVars, workVars, diffVars, dagVars, lockVars>>

nonHashVars == <<codecVars, workVars, diffVars, dagVars, lockVars>>

nonWorkVars == <<codecVars, hashVars, diffVars, dagVars, lockVars>>

vars == <<hdr, enc, encNN, dec, hx, cpc, now, kps, calls, tab, srv, work, rpc,
          chainParams, blockIndex, cachedBlake3WorkDiffAnchor, dcalls,
          dagCaches, chainLock, threads>>

----------------------------------------------------------------------------
(* Bounds of the model.                                                    *)

\* Header variants 0..MaxVariant: each variant gives every scalar field,
\* hash and array of the header a different value.
MaxVariant == 2

----------------------------------------------------------------------------
(* Bytes and little-endian integers.                                       *)

Pow256(i) == CASE i = 0 -> 1 [] i = 1 -> 256 [] i = 2 -> 65536 [] OTHER -> 16777216

\* Byte i (0 = least significant) of the non-negative v < 2^31.
NatByte(v, i) == IF i < 4 THEN (v \div Pow256(i)) % 256 ELSE 0

\* Byte i of the two's complement representation of v (any width >= 4 bytes):
\* for negative v it is the complement of the byte of -v-1.
TcByte(v, i) == IF v >= 0 THEN NatByte(v, i) ELSE 255 - NatByte(-v - 1, i)

\* binary.LittleEndian.PutUintN: the w low bytes of v, least significant first.
LEBytes(v, w) == [i \in 1..w |-> TcByte(v, i - 1)] \o <<>>

RECURSIVE LEUint(_)
\* binary.LittleEndian.UintN of a byte slice.
LEUint(b) == IF Len(b) = 0 THEN 0 ELSE b[1] + 256 * LEUint(Tail(b))

\* The signed reading of a little-endian two's complement slice.
LEInt(b) ==
    IF b[Len(b)] < 128 THEN LEUint(b)
    ELSE -LEUint([i \in 1..Len(b) |-> 255 - b[i]]) - 1

ZeroBytes(n) == [i \in 1..n |-> 0] \o <<>>

NoBytes == <<>>

\* chainhash.HashSize
HashSize == 32

\* A sample n-byte array; k = 0 is the all-zero array.
Pattern(k, n) == [i \in 1..n |-> (k * (i + 2)) % 128] \o <<>>

----------------------------------------------------------------------------
(* wire.BlockHeader and its codec.                                         *)

\* time.Time as the instant it denotes: Unix seconds and the nanoseconds
\* within the second.
Time(sec, nsec) == [sec |-> sec, nsec |-> nsec]

\* time.Unix(sec, 0)
TimeUnix(sec) == Time(sec, 0)

\* Widths in bytes of the element kinds the header codec writes and reads.
Width(kind) ==
    CASE kind = "uint8" -> 1
      [] kind = "uint16" -> 2
      [] kind = "int32" -> 4
      [] kind = "uint32" -> 4
      [] kind = "uint32Time" -> 4
      [] kind = "int64" -> 8
      [] kind = "uint64" -> 8
      [] kind = "[6]byte" -> 6
      [] kind = "[32]byte" -> 32
      [] kind = "Hash" -> 32

El(kind, val) == [kind |-> kind, val |-> val]

\* writeElement: the little-endian fixed-width encoding of one element, or an
\* error.  An element of Go type int (an untyped constant passed as
\* interface{}) has no fast path and is rejected by binary.Write, which
\* accepts fixed-size values only; nothing is written for it.
writeElement(e) ==
    IF e.kind \in {"uint8", "uint16", "int32", "uint32", "int64", "uint64"}
    THEN [bytes |-> LEBytes(e.val, Width(e.kind)), err |-> FALSE]
    ELSE IF e.kind \in {"[6]byte", "[32]byte", "Hash"}
    THEN [bytes |-> e.val, err |-> FALSE]
    ELSE [bytes |-> <<>>, err |-> TRUE]

RECURSIVE writeElements(_)
\* writeElements: writes the elements in order and stops at the first error,
\* leaving what was written before it in the buffer.
writeElements(es) ==
    IF Len(es) = 0 THEN [bytes |-> <<>>, err |-> FALSE]
    ELSE LET first == writeElement(Head(es))
         IN  IF first.err THEN [bytes |-> <<>>, err |-> TRUE]
             ELSE LET rest == writeElements(Tail(es))
                  IN  [bytes |-> first.bytes \o rest.bytes, err |-> rest.err]

\* readElement: one element of the given kind from exactly Width(kind) bytes.
readElement(kind, b) ==
    CASE kind \in {"uint8", "uint16", "uint32", "uint64"} -> LEUint(b)
      [] kind \in {"int32", "int64"} -> LEInt(b)
      [] kind = "uint32Time" -> TimeUnix(LEUint(b))
      [] OTHER -> b

RECURSIVE readElements(_, _)
\* readElements: reads the kinds in order from the reader; a reader that runs
\* out of bytes inside or before an element is an error (io.ReadFull).
readElements(b, kinds) ==
    IF Len(kinds) = 0 THEN [vals |-> <<>>, err |-> FALSE]
    ELSE LET w == Width(Head(kinds))
         IN  IF Len(b) < w THEN [vals |-> <<>>, err |-> TRUE]
             ELSE LET rest == readElements(SubSeq(b, w + 1, Len(b)), Tail(kinds))
                  IN  [vals |-> <<readElement(Head(kinds), SubSeq(b, 1, w))>> \o rest.vals,
                       err |-> rest.err]

\* writeBlockHeader with the Height and Size elements written in the wrong
\* order.
writeBlockHeaderSizeFirst(bh) ==
    LET sec == bh.Timestamp.sec
    IN  writeElements(<<El("int32", bh.Version), El("Hash", bh.PrevBlock),
            El("Hash", bh.MerkleRoot), El("Hash", bh.StakeRoot),
            El("uint16", bh.VoteBits), El("[6]byte", bh.FinalState),
            El("uint16", bh.Voters), El("uint8", bh.FreshStake),
            El("uint8", bh.Revocations), El("uint32", bh.PoolSize),
            El("uint32", bh.Bits), El("int64", bh.SBits),
            El("uint32", bh.Size), El("uint32", bh.Height), El("uint32", sec),
            El("uint64", bh.Nonce), El("[32]byte", bh.MixDigest),
            El("[32]byte", bh.ExtraData), El("uint32", bh.StakeVersion)>>)

\* uint32(bh.Timestamp.Unix()): the seconds, truncated to 32 bits by the
\* 4-byte write of the element.
writeBlockHeader(bh) ==
    LET sec == bh.Timestamp.sec
    IN  writeElements(<<El("int32", bh.Version), El("Hash", bh.PrevBlock),
            El("Hash", bh.MerkleRoot), El("Hash", bh.StakeRoot),
            El("uint16", bh.VoteBits), El("[6]byte", bh.FinalState),
            El("uint16", bh.Voters), El("uint8", bh.FreshStake),
            El("uint8", bh.Revocations), El("uint32", bh.PoolSize),
            El("uint32", bh.Bits), El("int64", bh.SBits),
            El("uint32", bh.Height), El("uint32", bh.Size), El("uint32", sec),
            El("uint64", bh.Nonce), El("[32]byte", bh.MixDigest),
            El("[32]byte", bh.ExtraData), El("uint32", bh.StakeVersion)>>)

\* The nonce element is the untyped constant 0, which reaches writeElement
\* as a Go int.
writeBlockHeaderNoNonce(bh) ==
    LET sec == bh.Timestamp.sec
    IN  writeElements(<<El("int32", bh.Version), El("Hash", bh.PrevBlock),
            El("Hash", bh.MerkleRoot), El("Hash", bh.StakeRoot),
            El("uint16", bh.VoteBits), El("[6]byte", bh.FinalState),
            El("uint16", bh.Voters), El("uint8", bh.FreshStake),
            El("uint8", bh.Revocations), El("uint32", bh.PoolSize),
            El("uint32", bh.Bits), El("int64", bh.SBits),
            El("uint32", bh.Height), El("uint32", bh.Size), El("uint32", sec),
            El("int", 0), El("[32]byte", bh.MixDigest),
            El("[32]byte", bh.ExtraData), El("uint32", bh.StakeVersion)>>)

\* The kinds readBlockHeader reads, in order.
HeaderKinds ==
    <<"int32", "Hash", "Hash", "Hash", "uint16", "[6]byte", "uint16", "uint8",
      "uint8", "uint32", "uint32", "int64", "uint32", "uint32", "uint32Time",
      "uint64", "[32]byte", "[32]byte", "uint32">>

HeaderOf(v) ==
    [Version |-> v[1], PrevBlock |-> v[2], MerkleRoot |-> v[3],
     StakeRoot |-> v[4], VoteBits |-> v[5], FinalState |-> v[6],
     Voters |-> v[7], FreshStake |-> v[8], Revocations |-> v[9],
     PoolSize |-> v[10], Bits |-> v[11], SBits |-> v[12], Height |-> v[13],
     Size |-> v[14], Timestamp |-> v[15], Nonce |-> v[16],
     MixDigest |-> v[17], ExtraData |-> v[18], StakeVersion |-> v[19]]

NoHeader == [none |-> TRUE]

readBlockHeader(b) ==
    LET r == readElements(b, HeaderKinds)
    IN  IF r.err THEN [hdr |-> NoHeader, err |-> TRUE]
        ELSE [hdr |-> HeaderOf(r.vals), err |-> FALSE]

\* Deserialize from a reader that yields zero bytes where the input ends.
DeserializeZeroFilled(b) == readBlockHeader(b \o ZeroBytes(256))

\* BlockHeader.Serialize / Deserialize / FromBytes delegate to the two above.
Serialize(bh) == writeBlockHeader(bh)

Deserialize(b) == readBlockHeader(b)

FromBytes(b) == Deserialize(b)

\* BlockHeader.Bytes: (nil, err) when Serialize fails.
Bytes(bh) ==
    LET r == Serialize(bh)
    IN  IF r.err THEN [bytes |-> <<>>, err |-> TRUE] ELSE r

\* BlockHeader.BytesNoNonce: the error is discarded and the buffer returned.
BytesNoNonce(bh) == writeBlockHeaderNoNonce(bh).bytes

RECURSIVE SumWidths(_)
SumWidths(kinds) ==
    IF Len(kinds) = 0 THEN 0 ELSE Width(Head(kinds)) + SumWidths(Tail(kinds))

\* MaxBlockHeaderPayload = 84 + (chainhash.HashSize * 4) + 4
MaxBlockHeaderPayload == 84 + (HashSize * 4) + 4

\* Offsets (0-based) at which writeBlockHeader places Height, Timestamp,
\* Nonce and MixDigest: the widths of the elements written before them.
HeightOffset == SumWidths(SubSeq(HeaderKinds, 1, 12))

TimestampOffset == SumWidths(SubSeq(HeaderKinds, 1, 14))

NonceOffset == SumWidths(SubSeq(HeaderKinds, 1, 15))

MixDigestOffset == SumWidths(SubSeq(HeaderKinds, 1, 16))

----------------------------------------------------------------------------
(* chainhash.HashH (BLAKE-256) is modelled as a deterministic function     *)
(* from a byte string to 32 bytes, spread from a rolling checksum of the   *)
(* input.                                                                  *)

RECURSIVE ChecksumOf(_, _, _)
\* The checksum of b[lo..hi], combined from the checksums of its two halves.
ChecksumOf(b, lo, hi) ==
    IF lo > hi THEN 7
    ELSE IF lo = hi THEN (b[lo] * 29 + lo) % 8191
    ELSE LET mid == (lo + hi) \div 2
         IN  (ChecksumOf(b, lo, mid) * 31 + ChecksumOf(b, mid + 1, hi) + 1) % 8191

Checksum(b) == ChecksumOf(b, 1, Len(b))

\* (Concatenating with the empty sequence makes the result an explicit tuple.)
DigestBytes(c, salt, n) == [i \in 1..n |-> (c * (i + salt) + (c \div 64) + i) % 256] \o <<>>

HashH(b) == DigestBytes(Checksum(b), 3, 32)

----------------------------------------------------------------------------
(* Bitwise operations on bytes, bit by bit.                                 *)

RECURSIVE XorBits(_, _, _)
\* The xor of two n-bit numbers, from the xor of their low and high halves.
XorBits(a, b, n) ==
    IF n = 1 THEN (a + b) % 2
    ELSE LET h == n \div 2
             p == 2 ^ h
         IN  XorBits(a % p, b % p, h) + p * XorBits(a \div p, b \div p, n - h)

RECURSIVE AndBits(_, _, _)
AndBits(a, b, n) ==
    IF n = 1 THEN a * b
    ELSE LET h == n \div 2
             p == 2 ^ h
         IN  AndBits(a % p, b % p, h) + p * AndBits(a \div p, b \div p, n - h)

\* a ^ b on bytes
Xor8(a, b) == IF a = 0 THEN b ELSE IF b = 0 THEN a ELSE XorBits(a, b, 8)

\* a & b on bytes
And8(a, b) == IF a = 0 \/ b = 0 THEN 0 ELSE AndBits(a, b, 8)

\* ^a on a byte
Not8(a) == 255 - a

----------------------------------------------------------------------------
(* Keccak of the internal engine: keccakF1600 with the Keccak-f[1600]      *)
(* permutation.  A uint64 lane is held as the set of the positions (0..63) *)
(* of its one bits.                                                        *)

ZeroLane == {}

\* binary.LittleEndian.Uint64 of eight bytes, as a lane.
LaneOfBytes(b) == {k \in 0..63 : (b[(k \div 8) + 1] \div (2 ^ (k % 8))) % 2 = 1}

RECURSIVE LaneByte(_, _, _)
\* The value of the n bits of the lane u from bit lo on.
LaneByte(u, lo, n) ==
    IF n = 1 THEN (IF lo \in u THEN 1 ELSE 0)
    ELSE LET h == n \div 2
         IN  LaneByte(u, lo, h) + (2 ^ h) * LaneByte(u, lo + h, n - h)

\* binary.LittleEndian.PutUint64 of a lane.
BytesOfLane(u) == [i \in 1..8 |-> LaneByte(u, 8 * (i - 1), 8)] \o <<>>

\* u ^ v
LaneXor(u, v) == {k \in (u \cup v) : ~(k \in u /\ k \in v)}

\* u ^ (^v & w)
LaneChi(u, v, w) == LaneXor(u, w \ v)

\* bits.RotateLeft64(u, n)
RotateLeft64(u, n) == {(k + n) % 64 : k \in u}

rhoOffset ==
    <<1, 3, 6, 10, 15, 21, 28, 36, 45, 55, 2, 14,
      27, 41, 56, 8, 25, 43, 62, 18, 39, 61, 20, 44>>

\* The round constants, as little-endian bytes.
rc ==
    <<<<1, 0, 0, 0, 0, 0, 0, 0>>, <<130, 128, 0, 0, 0, 0, 0, 0>>,
      <<138, 128, 0, 0, 0, 0, 0, 128>>, <<0, 128, 0, 128, 0, 0, 0, 128>>,
      <<139, 128, 0, 0, 0, 0, 0, 0>>, <<1, 0, 0, 128, 0, 0, 0, 0>>,
      <<129, 128, 0, 128, 0, 0, 0, 128>>, <<9, 128, 0, 0, 0, 0, 0, 128>>,
      <<138, 0, 0, 0, 0, 0, 0, 0>>, <<136, 0, 0, 0, 0, 0, 0, 0>>,
      <<9, 128, 0, 128, 0, 0, 0, 0>>, <<10, 0, 0, 128, 0, 0, 0, 0>>,
      <<139, 128, 0, 128, 0, 0, 0, 0>>, <<139, 0, 0, 0, 0, 0, 0, 128>>,
      <<137, 128, 0, 0, 0, 0, 0, 128>>, <<3, 128, 0, 0, 0, 0, 0, 128>>,
      <<2, 128, 0, 0, 0, 0, 0, 128>>, <<128, 0, 0, 0, 0, 0, 0, 128>>,
      <<10, 128, 0, 0, 0, 0, 0, 0>>, <<10, 0, 0, 128, 0, 0, 0, 128>>,
      <<129, 128, 0, 128, 0, 0, 0, 128>>, <<128, 128, 0, 0, 0, 0, 0, 128>>,
      <<1, 0, 0, 128, 0, 0, 0, 0>>, <<8, 128, 0, 128, 0, 0, 0, 128>>>>

\* The theta step: a[x+5y] ^= bc[(x+4)%5] ^ rotl(bc[(x+1)%5], 1).
Theta(a) ==
    LET bc == [x \in 1..5 |->
                  LaneXor(LaneXor(LaneXor(LaneXor(a[x], a[x + 5]), a[x + 10]), a[x + 15]),
                          a[x + 20])] \o <<>>
        t == [x \in 1..5 |->
                 LaneXor(bc[((x + 3) % 5) + 1], RotateLeft64(bc[(x % 5) + 1], 1))] \o <<>>
    IN  [i \in 1..25 |-> LaneXor(a[i], t[((i - 1) % 5) + 1])] \o <<>>

\* The lanes x + 5y (counted from 1) the rho and pi loop writes, in order:
\* x, y = y, (2x+3y)%5 from (1, 0), 24 times.  Every lane but the first is
\* written once.
RhoPiLanes ==
    <<11, 8, 12, 18, 19, 4, 6, 17, 9, 22, 25, 5, 16, 24, 20, 14, 13, 3, 21, 15,
      23, 10, 7, 2>>

\* The rho and pi steps: t, a[x+5y] = a[x+5y], rotl(t, rhoOffset[i]) from
\* t = a[1]: the lane written in step i receives the rotated old value of
\* the lane written in step i - 1.
RhoPi(a) ==
    [j \in 1..25 |->
        IF j = 1 THEN a[1]
        ELSE LET i == CHOOSE i \in 1..24 : RhoPiLanes[i] = j
             IN  RotateLeft64(a[IF i = 1 THEN 2 ELSE RhoPiLanes[i - 1]], rhoOffset[i])
    ] \o <<>>

\* The chi step on each row of five lanes.
Chi(a) ==
    [i \in 1..25 |->
        LET y == (i - 1) \div 5
            x == (i - 1) % 5
        IN  LaneChi(a[i], a[5 * y + ((x + 1) % 5) + 1], a[5 * y + ((x + 2) % 5) + 1])] \o <<>>

\* The iota step: a[0] ^= rc[round].
Iota(a, round) == [a EXCEPT ![1] = LaneXor(a[1], LaneOfBytes(rc[round + 1]))] \o <<>>

RECURSIVE permuteFrom(_, _, _)
\* The n rounds from the given one on, run as two halves in order (each
\* state is computed before the next round starts).
permuteFrom(a, round, n) ==
    IF n = 0 THEN a
    ELSE IF n = 1 THEN Iota(Chi(RhoPi(Theta(a))), round)
    ELSE LET half == permuteFrom(a, round, n \div 2)
         IN  IF Len(half) = 25
             THEN permuteFrom(half, round + (n \div 2), n - (n \div 2)) ELSE <<>>

\* keccakF1600.permute
permute(a) == permuteFrom(a, 0, 24)

\* keccakF1600.absorb: xor rate/8 lanes of the block into the state, permute.
absorb(a, data, rate) ==
    permute([i \in 1..25 |->
                IF i <= rate \div 8
                THEN LaneXor(a[i], LaneOfBytes(SubSeq(data, (i - 1) * 8 + 1, (i - 1) * 8 + 8)))
                ELSE a[i]] \o <<>>)

RECURSIVE absorbBlocks(_, _, _)
\* Write and finalize: every full block of the input is absorbed, then the
\* rest with a 0x01 byte and zeros up to the rate.
absorbBlocks(a, buf, rate) ==
    IF Len(buf) >= rate
    THEN LET next == absorb(a, SubSeq(buf, 1, rate), rate)
         IN  IF Len(next) = 25 THEN absorbBlocks(next, SubSeq(buf, rate + 1, Len(buf)), rate)
             ELSE <<>>
    ELSE absorb(a, buf \o <<1>> \o [i \in 1..(rate - Len(buf) - 1) |-> 0], rate)

RECURSIVE Flatten(_)
Flatten(ss) == IF Len(ss) = 0 THEN <<>> ELSE Head(ss) \o Flatten(Tail(ss))

\* h.Write(data); h.Sum(nil) on a fresh keccakF1600 of the given rate and
\* hash size: the first hashSize/8 lanes of the final state, as bytes.
keccakSum(data, rate, hashSize) ==
    LET a == absorbBlocks([i \in 1..25 |-> ZeroLane] \o <<>>, data, rate)
    IN  Flatten([i \in 1..(hashSize \div 8) |-> BytesOfLane(a[i])] \o <<>>)

\* NewKeccak256: rate 136, hashSize 32
keccak256(data) == keccakSum(data, 136, 32)

\* NewKeccak512: rate 72, hashSize 64
keccak512(data) == keccakSum(data, 72, 64)

----------------------------------------------------------------------------
(* Keccak of the standalone engine: keccak256State and keccak512State, a   *)
(* 200-byte state into which Write xors the input and whose Sum applies a  *)
(* simplified round function.  The state is held as 25 rows of 8 bytes:    *)
(* state[j] of the code is row j / 8, column j % 8.                        *)

SimpleRows == 25

SimpleRoundCount == 24

RECURSIVE XorStride(_, _, _)
\* The xor of p[j], p[j + rate], p[j + 2 rate], ...
XorStride(p, j, rate) ==
    IF j > Len(p) THEN 0 ELSE Xor8(p[j], XorStride(p, j + rate, rate))

\* Write: for i, b := range p { k.state[i%rate] ^= b }.  A row past the
\* end of the input and past the rate is left as it is.
SimpleWrite(state, p, rate) ==
    [r \in 1..SimpleRows |->
        IF (r - 1) * 8 >= Len(p) \/ (r - 1) * 8 >= rate THEN state[r]
        ELSE [c \in 1..8 |->
                 IF (r - 1) * 8 + c <= rate
                 THEN Xor8(state[r][c], XorStride(p, (r - 1) * 8 + c, rate))
                 ELSE state[r][c]] \o <<>>] \o <<>>

\* for j := 0; j < len(k.state); j += 8 { k.state[j] ^= k.state[j+1] }
SimpleRound(state) ==
    [r \in 1..SimpleRows |-> [state[r] EXCEPT ![1] = Xor8(@, state[r][2])]] \o <<>>

RECURSIVE SimpleRounds(_, _)
\* n rounds, run as two halves in order.
SimpleRounds(state, n) ==
    IF n = 0 THEN state
    ELSE IF n = 1 THEN SimpleRound(state)
    ELSE LET half == SimpleRounds(state, n \div 2)
         IN  IF Len(half) = SimpleRows THEN SimpleRounds(half, n - (n \div 2)) ELSE <<>>

\* Sum: state[pad] ^= 0x01, state[len-1] ^= 0x80, the rounds, and the first
\* size bytes of the state (pad is a multiple of 8).
SimpleSum(state, pad, size) ==
    LET padded == [r \in 1..SimpleRows |->
                      IF r = (pad \div 8) + 1
                      THEN <<Xor8(state[r][1], 1)>> \o SubSeq(state[r], 2, 8)
                      ELSE IF r = SimpleRows
                      THEN SubSeq(state[r], 1, 7) \o <<Xor8(state[r][8], 128)>>
                      ELSE state[r]] \o <<>>
    IN  Flatten(SubSeq(SimpleRounds(padded, SimpleRoundCount), 1, size \div 8))

SimpleReset == [r \in 1..SimpleRows |-> ZeroBytes(8)] \o <<>>

RECURSIVE SimpleWrites(_, _, _)
\* The state after the given Write calls, in order.
SimpleWrites(state, ps, rate) ==
    IF Len(ps) = 0 THEN state
    ELSE LET next == SimpleWrite(state, Head(ps), rate)
         IN  IF Len(next) = SimpleRows THEN SimpleWrites(next, Tail(ps), rate) ELSE <<>>

\* keccak256State: BlockSize 136, Size 32.  The digest of a sequence of
\* Write calls on a reset state.
SimpleKeccak256(ps) == SimpleSum(SimpleWrites(SimpleReset, ps, 136), 136, 32)

\* keccak512State: block size 72, 64 bytes of output.
SimpleKeccak512(ps) == SimpleSum(SimpleWrites(SimpleReset, ps, 72), 72, 64)

----------------------------------------------------------------------------
(* The standalone hash engine: node/blockchain/standalone/kawpow.          *)

KawPowEpochLength == 7500

KawPowDatasetItems == 16777216

\* if len(headerBytes) < 172
MinHeaderLen == 172

\* headerBytes[152:156]
HashHeightOffset == 152

\* headerBytes[168:172]
HashTimestampOffset == 168

\* headerPrefix := headerBytes[:172]
HeaderPrefixLen == 172

\* headerBytes[180:180+chainhash.HashSize] in Verify
VerifyHashOffset == 180

\* for i := 0; i < 64; i++
HashRounds == 64

CalcSeedHash(height, timestamp) ==
    LET epoch == height \div KawPowEpochLength
        seed == LEBytes(epoch, 8) \o LEBytes(timestamp, 8) \o ZeroBytes(16)
    IN  HashH(SimpleKeccak256(<<seed>>))

\* getDAG: a new dagCache on every call; item i is the first 32 bytes of
\* Keccak-512(seed || uint32(i)).  The items are held by their seed and
\* computed on demand.
getDAG(epoch, seed) == [epoch |-> epoch, seed |-> seed]

DagItem(dag, i) == SubSeq(SimpleKeccak512(<<dag.seed, LEBytes(i, 4)>>), 1, 32)

\* One round of the main hash loop (each value is computed before it is
\* used).  The DAG index is
\* binary.LittleEndian.Uint64(mix) % len(dag.items), which is the low three
\* bytes of the mix since len(dag.items) = 2^24.
MixRound(mix, dag) ==
    LET index == LEUint(SubSeq(mix, 1, 3)) % KawPowDatasetItems
        item == DagItem(dag, index)
    IN  IF Len(item) = HashSize
        THEN LET mixed == [j \in 1..Len(mix) |->
                             IF j <= 32 THEN Xor8(mix[j], item[j]) ELSE mix[j]] \o <<>>
             IN  IF Len(mixed) = Len(mix) THEN SimpleKeccak256(<<mixed>>) ELSE NoBytes
        ELSE NoBytes

RECURSIVE MixLoop(_, _, _)
\* The main hash loop: n rounds from the mix state, run as two halves in
\* order (each round's state is computed before the next round starts).
MixLoop(mix, dag, n) ==
    IF n = 0 THEN mix
    ELSE IF n = 1 THEN MixRound(mix, dag)
    ELSE LET half == MixLoop(mix, dag, n \div 2)
         IN  IF Len(half) = HashSize THEN MixLoop(half, dag, n - (n \div 2)) ELSE NoBytes

\* The head of KawPow.Hash: the length check and what the function reads
\* from the header bytes (height, timestamp, the prefix before the nonce).
HashFields(headerBytes) ==
    IF Len(headerBytes) < MinHeaderLen
    THEN [err |-> TRUE, height |-> -1, timestamp |-> -1, headerPrefix |-> NoBytes]
    ELSE [err |-> FALSE,
          height |-> LEUint(SubSeq(headerBytes, HashHeightOffset + 1, HashHeightOffset + 4)),
          timestamp |-> LEUint(SubSeq(headerBytes, HashTimestampOffset + 1, HashTimestampOffset + 4)),
          headerPrefix |-> SubSeq(headerBytes, 1, HeaderPrefixLen)]

\* KawPow.Hash of the standalone engine: (finalHash, mixDigest, err).
StandaloneHash(headerBytes, nonce) ==
    LET f == HashFields(headerBytes)
        failed == [hash |-> NoBytes, mix |-> NoBytes, err |-> TRUE]
    IN  IF f.err THEN failed
        ELSE LET seedHash == CalcSeedHash(f.height, f.timestamp)
                 epoch == f.height \div KawPowEpochLength
                 combinedInput == f.headerPrefix \o LEBytes(nonce, 8)
                 initialHash == SimpleKeccak256(<<combinedInput>>)
             IN  IF Len(seedHash) = HashSize /\ Len(initialHash) = HashSize
                 THEN LET dag == getDAG(epoch, seedHash)
                          mix == MixLoop(initialHash \o ZeroBytes(32), dag, HashRounds)
                      IN  IF Len(mix) = HashSize
                          THEN [hash |-> SimpleKeccak256(<<initialHash, mix>>),
                                mix |-> mix, err |-> FALSE]
                          ELSE failed
                 ELSE failed

\* The body of the standalone KawPow.Verify after its call of Hash returned
\* h.  headerBytes[180:212] is a slice expression: it panics when the slice
\* is shorter than 212 bytes (the capacity of the slices modelled here equals
\* their length).
StandaloneVerifyWith(h, headerBytes, mixDigest) ==
    IF h.err THEN [ok |-> FALSE, err |-> TRUE, panic |-> FALSE]
    ELSE IF Len(headerBytes) < VerifyHashOffset + HashSize
    THEN [ok |-> FALSE, err |-> FALSE, panic |-> TRUE]
    ELSE IF h.hash # SubSeq(headerBytes, VerifyHashOffset + 1, VerifyHashOffset + HashSize)
    THEN [ok |-> FALSE, err |-> FALSE, panic |-> FALSE]
    ELSE IF h.mix # mixDigest
    THEN [ok |-> FALSE, err |-> FALSE, panic |-> FALSE]
    ELSE [ok |-> TRUE, err |-> FALSE, panic |-> FALSE]

\* KawPow.Verify of the standalone engine.
StandaloneVerify(headerBytes, nonce, mixDigest) ==
    StandaloneVerifyWith(StandaloneHash(headerBytes, nonce), headerBytes, mixDigest)

----------------------------------------------------------------------------
(* Sample headers.                                                         *)

HeightSamples == <<0, 1, 7499, 7500, 65537>>

\* 0x5f5e100 is the regression vector's timestamp, 0x61c402e0 the genesis
\* block's; the last sample carries a sub-second part.
TimestampSamples ==
    <<Time(0, 0), Time(100000000, 0), Time(1640235744, 0), Time(1640235744, 500000000)>>

\* 0x7c2bac1d is the genesis block's nonce.
NonceSamples == <<0, 1, 2083236893>>

MixDigestSamples == <<Pattern(0, 32), Pattern(5, 32)>>

\* 0x1d00ffff is PowLimitBits.
BitsSamples == <<486604799, 50331653, 67108865>>

SampleHeader(a, height, ts, nonce, mixDigest) ==
    [Version |-> IF a % 2 = 0 THEN a + 1 ELSE -a,
     PrevBlock |-> Pattern(a, 32),
     MerkleRoot |-> Pattern(a + 1, 32),
     StakeRoot |-> Pattern(a + 2, 32),
     VoteBits |-> (a * 257 + 1) % 65536,
     FinalState |-> Pattern(a + 3, 6),
     Voters |-> (a * 300 + 5) % 65536,
     FreshStake |-> (a * 17) % 256,
     Revocations |-> (a * 3 + 1) % 256,
     PoolSize |-> a * 70000 + 5,
     Bits |-> BitsSamples[(a % Len(BitsSamples)) + 1],
     SBits |-> IF a % 2 = 0 THEN 200000000 + a ELSE -a,
     Height |-> height,
     Size |-> a * 1000 + 216,
     Timestamp |-> ts,
     Nonce |-> nonce,
     MixDigest |-> mixDigest,
     ExtraData |-> Pattern(a + 4, 32),
     StakeVersion |-> a + 7]

Range(s) == {s[i] : i \in DOMAIN s}

HeaderSet ==
    {SampleHeader(a, h, t, n, m) :
        a \in 0..MaxVariant, h \in Range(HeightSamples),
        t \in Range(TimestampSamples), n \in Range(NonceSamples),
        m \in Range(MixDigestSamples)}

----------------------------------------------------------------------------
(* The codec scenario: a header is serialized, then decoded, serialized    *)
(* without its nonce, or handed to the hash engine.                        *)

NoResult == [none |-> TRUE]

\* The hash engines at rest: no instance, no call.
HashIdle == now = 0 /\ kps = <<>> /\ calls = <<>> /\ tab = NoResult

CodecIdle ==
    /\ hdr = NoHeader /\ enc = NoResult /\ encNN = NoBytes
    /\ dec = NoResult /\ hx = NoResult /\ cpc = "idle"

\* The work RPC at rest: no server, no call.
WorkIdle == srv = NoResult /\ work = NoResult /\ rpc = NoResult

\* The difficulty engine at rest: no chain, no call.
DiffIdle ==
    /\ chainParams = NoResult /\ blockIndex = <<>>
    /\ cachedBlake3WorkDiffAnchor = 0 /\ dcalls = <<>>

\* var dagCaches = make(map[int64]*dagCache): the empty map.
DagIdle == dagCaches = <<>>

\* No goroutine is inside a query and the chain lock is free.
LockIdle == chainLock = 0 /\ threads = <<>>

CodecInit ==
    /\ hdr \in HeaderSet
    /\ enc = NoResult
    /\ encNN = NoBytes
    /\ dec = NoResult
    /\ hx = NoResult
    /\ cpc = "new"
    /\ HashIdle
    /\ WorkIdle
    /\ DiffIdle
    /\ DagIdle
    /\ LockIdle

\* h.Bytes()
SerializeHeader ==
    /\ cpc = "new"
    /\ enc' = Bytes(hdr)
    /\ cpc' = "encoded"
    /\ UNCHANGED <<hdr, encNN, dec, hx>>
    /\ UNCHANGED nonCodecVars

\* h2.Deserialize(bytes.NewReader(b))
DeserializeHeader ==
    /\ cpc = "encoded"
    /\ ~enc.err
    /\ dec' = Deserialize(enc.bytes)
    /\ cpc' = "decoded"
    /\ UNCHANGED <<hdr, enc, encNN, hx>>
    /\ UNCHANGED nonCodecVars

\* h.BytesNoNonce()
SerializeHeaderNoNonce ==
    /\ cpc = "encoded"
    /\ encNN' = BytesNoNonce(hdr)
    /\ cpc' = "nononce"
    /\ UNCHANGED <<hdr, enc, dec, hx>>
    /\ UNCHANGED nonCodecVars

\* kp.Hash(b, h.Nonce) on the serialized header, up to the point where the
\* height, the timestamp and the header prefix have been read.
HashHeader ==
    /\ cpc = "encoded"
    /\ ~enc.err
    /\ hx' = HashFields(enc.bytes)
    /\ cpc' = "hashed"
    /\ UNCHANGED <<hdr, enc, encNN, dec>>
    /\ UNCHANGED nonCodecVars

CodecNext == SerializeHeader \/ DeserializeHeader \/ SerializeHeaderNoNonce \/ HashHeader

SpecCodec == CodecInit /\ [][CodecNext]_vars

----------------------------------------------------------------------------
(* Claims about the header codec.                                          *)

\* The Unix second count (an int64) fits an unsigned 32-bit count: its upper
\* four bytes are zero.
FitsUint32(sec) == LEBytes(sec, 8) = LEBytes(sec, 4) \o ZeroBytes(4)

\* C1: for every header whose Timestamp has whole-second precision and fits
\* an unsigned 32-bit second count, Deserialize(Serialize(h)) succeeds and
\* yields a header equal to h in every field.
C1_RoundTrip ==
    (cpc = "decoded" /\ hdr.Timestamp.nsec = 0 /\ FitsUint32(hdr.Timestamp.sec))
        => (~dec.err /\ dec.hdr = hdr)

\* A header with a negative Version, a multi-byte nonce, a non-zero mix
\* digest and an epoch-boundary height came back from the round trip.
C1_Witness ==
    /\ cpc = "decoded"
    /\ hdr.Timestamp.nsec = 0
    /\ hdr.Version < 0
    /\ hdr.Nonce > 1
    /\ hdr.Height = KawPowEpochLength
    /\ hdr.MixDigest # ZeroBytes(32)
    /\ ~dec.err
    /\ dec.hdr = hdr

\* C2: BytesNoNonce(h) has the length of Bytes(h), equals it at every
\* position outside the 8 bytes of the encoded Nonce, and is zero there.
C2_NoNonceDiffersOnlyInNonce ==
    cpc = "nononce" =>
        /\ Len(encNN) = Len(enc.bytes)
        /\ \A i \in 1..Len(enc.bytes) :
              IF i > NonceOffset /\ i <= NonceOffset + 8
              THEN encNN[i] = 0
              ELSE encNN[i] = enc.bytes[i]

\* C3: the height and timestamp KawPow.Hash extracts from Bytes(h) equal
\* h.Height and h.Timestamp in seconds, and the prefix it treats as "before
\* the nonce" ends exactly where writeBlockHeader places the Nonce field.
C3_HashAgreesWithCodecLayout ==
    cpc = "hashed" =>
        /\ hx.height = hdr.Height
        /\ hx.timestamp = hdr.Timestamp.sec
        /\ Len(hx.headerPrefix) = NonceOffset


----------------------------------------------------------------------------
(* The internal hash engine (package kawpow with the Keccak-f[1600]        *)
(* permutation, a cache and a dataset owned by the KawPow instance).       *)
(* A uint32 is held as its four little-endian bytes.                       *)

W32(n) == LEBytes(n, 4)

WXor(a, b) == [i \in 1..4 |-> Xor8(a[i], b[i])] \o <<>>

RECURSIVE MulColumn(_, _, _, _)
\* The sum of a[i] * c[k + 1 - i] for i in 1..j.
MulColumn(a, c, k, j) ==
    IF j = 0 THEN 0 ELSE a[j] * c[k + 1 - j] + MulColumn(a, c, k, j - 1)

RECURSIVE MulBytes(_, _, _, _)
MulBytes(a, c, k, carry) ==
    IF k > 4 THEN <<>>
    ELSE LET s == carry + MulColumn(a, c, k, k)
         IN  <<s % 256>> \o MulBytes(a, c, k + 1, s \div 256)

\* a * c on uint32
WMul(a, c) == MulBytes(a, c, 1, 0)

\* 0x01000193
FnvPrime == 16777619

\* fnv(a, b) = (a * 0x01000193) ^ b
fnv(a, b) == WXor(WMul(a, W32(FnvPrime)), b)

\* cacheSize / 4 words of cache
CacheLen == 4194304

\* datasetSize / 8 words of dataset
DatasetLen == 268435456

\* cacheRounds
CacheRounds == 3

\* the uint32 words of one Keccak-512 digest
DigestWords == 16

\* time.Now().Unix() / 300
CacheGenPeriod == 300

\* const mixRounds = 64
MixRounds == 64

\* mixWords = mixBytes / 4
MixWords == 1024

\* 0x5bd1e995
DatasetMul == 1540483477

RECURSIVE CacheChain(_, _)
\* The digests generateCache copies into the cache: keccak512(seed), then
\* the keccak512 of the previous digest, cacheRounds digests in all.
CacheChain(hash, n) ==
    IF n = 0 \/ Len(hash) = 0 THEN <<>> ELSE hash \o CacheChain(keccak512(hash), n - 1)

\* generateCache: the first cacheRounds * 16 words hold the chained
\* Keccak-512 digests of the seed, every other word is zero.  The cache is
\* held by the bytes of its non-zero head.
generateCache(seed) == [head |-> CacheChain(keccak512(seed), CacheRounds)]

CacheWord(cache, i) ==
    IF i < CacheRounds * DigestWords
    THEN SubSeq(cache.head, i * 4 + 1, i * 4 + 4)
    ELSE W32(0)

\* generateDataset: dataset[i] = cache[i % len(cache)] ^ i.  While
\* i < len(cache) the cache word is the generated one, and the loop then
\* overwrites it with uint32((v * 0x5bd1e995) ^ (v >> 31)) for the value v
\* just stored, which is what the later indexes read.  Only the low 32 bits
\* of a dataset word are ever used.
generateDataset(cache) == [len |-> DatasetLen, cache |-> cache]

DatasetWord(dataset, i) ==
    LET j == i % CacheLen
        v == WXor(CacheWord(dataset.cache, j), W32(j))
        updated == WXor(WMul(v, W32(DatasetMul)), W32(v[4] \div 128))
    IN  IF i < CacheLen THEN v ELSE WXor(updated, W32(i))

\* New(): the cache and the dataset are generated from the wall clock.
New(clock) ==
    LET cacheGen == clock \div CacheGenPeriod
        seed == LEBytes(cacheGen, 8) \o ZeroBytes(24)
        cache == generateCache(seed)
    IN  [cacheGen |-> cacheGen, dataset |-> generateDataset(cache)]

\* mixBuffer[i]: only the first 16 of the 1024 words are ever non-zero.
MixWord(mb, i) == IF i < DigestWords THEN mb[i + 1] ELSE W32(0)

\* parent % uint32(words) with words = datasetSize / 32 = 2^26
ParentIndex(w) == w[1] + 256 * w[2] + 65536 * w[3] + 16777216 * (w[4] % 4)

\* The index of the dataset item a mixing round reads.
RoundParent(mb, i) ==
    ParentIndex(fnv(WXor(W32(i), MixWord(mb, i % MixWords)),
                    MixWord(mb, (i + 1) % MixWords)))

\* One round of hashimoto's main mixing loop.
HashimotoRound(k, mb, i) ==
    LET parent == RoundParent(mb, i)
        parentData == [j \in 0..15 |->
                          IF parent * 16 + j < DatasetLen
                          THEN DatasetWord(k.dataset, parent * 16 + j) ELSE W32(0)]
    IN  [j \in 1..DigestWords |-> fnv(mb[j], parentData[j - 1])] \o <<>>

RECURSIVE HashimotoLoop(_, _, _, _)
\* The rounds i .. i + n - 1 of the main mixing loop, run as two halves in
\* order (each buffer is computed before the next round starts).
HashimotoLoop(k, mb, i, n) ==
    IF n = 0 THEN mb
    ELSE IF n = 1 THEN HashimotoRound(k, mb, i)
    ELSE LET half == HashimotoLoop(k, mb, i, n \div 2)
         IN  IF Len(half) = DigestWords
             THEN HashimotoLoop(k, half, i + (n \div 2), n - (n \div 2)) ELSE NoBytes

\* The initial mix buffer: the words of Keccak-512(headerHash || nonce).
InitialMix(headerHash, nonce) ==
    LET mix == keccak512(headerHash \o LEBytes(nonce, 8))
    IN  [i \in 1..DigestWords |-> SubSeq(mix, (i - 1) * 4 + 1, (i - 1) * 4 + 4)] \o <<>>

\* hashimoto: (compressedMix, result).
hashimoto(k, headerHash, nonce) ==
    LET initial == InitialMix(headerHash, nonce)
        final == IF Len(initial) = DigestWords
                 THEN HashimotoLoop(k, initial, 0, MixRounds) ELSE NoBytes
        compressedMix == Flatten(SubSeq(final, 1, 8))
        result == keccak256(headerHash \o compressedMix \o LEBytes(nonce, 8))
    IN  <<compressedMix, result>>

\* KawPow.Hash of the internal engine: (mixHash, result, err), in that
\* order.  The cache generated from the header's seed is used only when the
\* instance has no dataset, which never holds after New(); an empty dataset
\* or an empty result of hashimoto is an error.  (The header hash is
\* computed before hashimoto starts.)
InternalHash(k, headerBytes, nonce) ==
    IF Len(headerBytes) < MinHeaderLen
    THEN [ret |-> <<NoBytes, NoBytes>>, err |-> TRUE]
    ELSE IF k.dataset.len = 0
    THEN [ret |-> <<NoBytes, NoBytes>>, err |-> TRUE]
    ELSE LET headerHash == keccak256(headerBytes)
             r == IF Len(headerHash) = HashSize
                  THEN hashimoto(k, headerHash, nonce) ELSE <<NoBytes, NoBytes>>
         IN  IF Len(r[1]) = 0 \/ Len(r[2]) = 0
             THEN [ret |-> <<NoBytes, NoBytes>>, err |-> TRUE]
             ELSE [ret |-> r, err |-> FALSE]

\* The body of the internal KawPow.Verify after its call of Hash returned h.
InternalVerifyWith(h, mixDigest, hash) ==
    IF h.err THEN [ok |-> FALSE, err |-> TRUE, panic |-> FALSE]
    ELSE IF h.ret[1] # mixDigest THEN [ok |-> FALSE, err |-> FALSE, panic |-> FALSE]
    ELSE IF h.ret[2] # hash THEN [ok |-> FALSE, err |-> FALSE, panic |-> FALSE]
    ELSE [ok |-> TRUE, err |-> FALSE, panic |-> FALSE]

\* KawPow.Verify of the internal engine.
InternalVerify(k, headerBytes, nonce, mixDigest, hash) ==
    InternalVerifyWith(InternalHash(k, headerBytes, nonce), mixDigest, hash)

\* headerBytes[:len(headerBytes)-32] in PowHashV2
PowHashStrip == 32

\* BlockHeader.PowHashV2: a fresh hasher per call; the first value Hash
\* returns is taken as the hash.  A failure of Bytes or Hash panics.
PowHashV2(h, clock) ==
    LET b == Bytes(h)
        kp == New(clock)
        r == InternalHash(kp, SubSeq(b.bytes, 1, Len(b.bytes) - PowHashStrip), h.Nonce)
    IN  IF b.err \/ r.err THEN [hash |-> NoBytes, panic |-> TRUE]
        ELSE [hash |-> r.ret[1], panic |-> FALSE]

----------------------------------------------------------------------------
(* The hash-engine scenario: hashers are created at different wall-clock   *)
(* times and Hash, Verify and PowHashV2 are called on a few inputs.        *)

\* The clock advances by half a cache-generation period up to MaxClock.
MaxClock == 450

ClockStep == 150

MaxInstances == 2

MaxCalls == 2

MaxVerifyCalls == 1

\* "Test header for hashing"
TestHeaderText ==
    <<84, 101, 115, 116, 32, 104, 101, 97, 100, 101, 114, 32, 102, 111, 114,
      32, 104, 97, 115, 104, 105, 110, 103>>

\* header := make([]byte, 180); copy(header, "Test header for hashing")
TestHeaderLen == 180

TestHeader == TestHeaderText \o ZeroBytes(TestHeaderLen - Len(TestHeaderText))

PowHeader(nonce) == SampleHeader(0, 1, Time(1640235744, 0), nonce, Pattern(5, 32))

\* The headers PowHashV2 is called on; with nonce 6471 the fifth mixing
\* round of the hash reads the head of the dataset.  The last header is
\* the second one with another mix digest.
PowHeaders ==
    <<PowHeader(6471), PowHeader(1), [PowHeader(1) EXCEPT !.MixDigest = Pattern(9, 32)]>>

FullHeader == Bytes(PowHeader(0)).bytes

\* A 212-byte slice that carries, after the first 180 bytes of FullHeader,
\* the final hash the standalone engine computes for it and nonce 12345.
SelfHashedHeader ==
    SubSeq(FullHeader, 1, VerifyHashOffset) \o StandaloneHash(FullHeader, 12345).hash

\* The last input is one byte short of the minimum length.
HashInputs == <<TestHeader, FullHeader, SelfHashedHeader, Pattern(3, MinHeaderLen - 1)>>

\* 12345 is the nonce of TestBasicHash; with the second nonce the second
\* mixing round of TestHeader's hash reads the head of the dataset.
HashNonces == <<12345, 31933>>

\* The cache generations the clock can reach.
MaxGen == MaxClock \div CacheGenPeriod

\* The instance New() returns in each cache generation (New depends on the
\* clock only through clock / 300); a sequence indexed from 1.
NewTable(maxGen) ==
    [g \in 1..(maxGen + 1) |-> New((g - 1) * CacheGenPeriod)] \o <<>>

\* The results of the internal engine for every instance, input and nonce,
\* and those of PowHashV2 and the standalone engine (sequences, indexed
\* from 1).
InternalHashTable(ks, inputs, nonces) ==
    [g \in 1..Len(ks) |-> [i \in 1..Len(inputs) |-> [n \in 1..Len(nonces) |->
        InternalHash(ks[g], inputs[i], nonces[n])] \o <<>>] \o <<>>] \o <<>>

PowHashTable(maxGen, headers) ==
    [g \in 1..(maxGen + 1) |-> [i \in 1..Len(headers) |->
        PowHashV2(headers[i], (g - 1) * CacheGenPeriod)] \o <<>>] \o <<>>

StandaloneHashTable(inputs, nonces) ==
    [i \in 1..Len(inputs) |-> [n \in 1..Len(nonces) |->
        StandaloneHash(inputs[i], nonces[n])] \o <<>>] \o <<>>

\* The inputs of the scenario with what the engines return on them.
Tables(inputs, nonces, headers, maxGen) ==
    LET ks == NewTable(maxGen)
    IN  [inputs |-> inputs,
         new |-> ks,
         internal |-> InternalHashTable(ks, inputs, nonces),
         pow |-> PowHashTable(maxGen, headers),
         standalone |-> StandaloneHashTable(inputs, nonces)]

\* b with bit p (1..8*Len(b)) inverted; p = 0 leaves b alone.
FlipBit(b, p) ==
    IF p = 0 THEN b
    ELSE [i \in 1..Len(b) |->
             IF i = ((p - 1) \div 8) + 1
             THEN Xor8(b[i], 2 ^ ((p - 1) % 8)) ELSE b[i]] \o <<>>

\* The bit a caller of Verify gets wrong, as (bit of the mix digest, bit of
\* the hash): none, the first of the one or the last of the other.
FlipSamples == {<<0, 0>>, <<1, 0>>, <<0, HashSize * 8>>}

HashInit ==
    /\ now = 0
    /\ kps = <<>>
    /\ calls = <<>>
    /\ tab = Tables(HashInputs, HashNonces, PowHeaders, MaxGen)
    /\ CodecIdle
    /\ WorkIdle
    /\ DiffIdle
    /\ DagIdle
    /\ LockIdle

Tick ==
    /\ now + ClockStep <= MaxClock
    /\ now' = now + ClockStep
    /\ UNCHANGED <<kps, calls, tab>>
    /\ UNCHANGED nonHashVars

\* kp := kawpow.New()
NewHasher ==
    /\ Len(kps) < MaxInstances
    /\ kps' = Append(kps, tab.new[(now \div CacheGenPeriod) + 1])
    /\ UNCHANGED <<now, calls, tab>>
    /\ UNCHANGED nonHashVars

\* What Hash of the given engine returns, as (finalHash, mixDigest, err).
HashOf(engine, k, i, n) ==
    IF engine = "internal"
    THEN LET r == tab.internal[kps[k].cacheGen + 1][i][n]
         IN  [hash |-> r.ret[2], mix |-> r.ret[1], err |-> r.err]
    ELSE tab.standalone[i][n]

\* kp.Hash(headerBytes, nonce) on either engine.
CallHash ==
    /\ Len(calls) < MaxCalls
    /\ \E engine \in {"internal", "standalone"}, k \in DOMAIN kps,
          i \in DOMAIN tab.inputs, n \in DOMAIN HashNonces :
          calls' = Append(calls,
                     [op |-> "hash", engine |-> engine, k |-> k, inp |-> i,
                      nonce |-> n, out |-> HashOf(engine, k, i, n)])
    /\ UNCHANGED <<now, kps, tab>>
    /\ UNCHANGED nonHashVars

\* kp.Verify(...) with the values Hash returned for the same input, of which
\* the caller may have one bit of the mix digest or of the hash wrong.  The
\* standalone Verify has no parameter for the hash.  Verify starts with the
\* call of Hash on its own arguments, whose result is taken from the tables.
CallVerify ==
    /\ Len(calls) < MaxVerifyCalls
    /\ \E engine \in {"internal", "standalone"}, k \in DOMAIN kps,
          i \in DOMAIN tab.inputs, n \in DOMAIN HashNonces,
          f \in FlipSamples :
          LET h == HashOf(engine, k, i, n)
              fm == f[1]
              fh == f[2]
              mixDigest == FlipBit(h.mix, IF h.err THEN 0 ELSE fm)
              hash == FlipBit(h.hash, IF h.err THEN 0 ELSE fh)
              out == IF engine = "internal"
                     THEN InternalVerifyWith(tab.internal[kps[k].cacheGen + 1][i][n],
                                             mixDigest, hash)
                     ELSE StandaloneVerifyWith(tab.standalone[i][n], tab.inputs[i],
                                               mixDigest)
          IN  calls' = Append(calls,
                         [op |-> "verify", engine |-> engine, k |-> k, inp |-> i,
                          nonce |-> n, mixDigest |-> mixDigest, hash |-> hash,
                          computed |-> h, out |-> out])
    /\ UNCHANGED <<now, kps, tab>>
    /\ UNCHANGED nonHashVars

\* h.PowHashV2()
CallPowHashV2 ==
    /\ Len(calls) < MaxCalls
    /\ \E i \in DOMAIN tab.pow[1] :
          calls' = Append(calls,
                     [op |-> "pow", inp |-> i, at |-> now,
                      out |-> tab.pow[(now \div CacheGenPeriod) + 1][i]])
    /\ UNCHANGED <<now, kps, tab>>
    /\ UNCHANGED nonHashVars

HashNext == Tick \/ NewHasher \/ CallHash \/ CallPowHashV2

SpecHash == HashInit /\ [][HashNext]_vars

VerifyNext == Tick \/ NewHasher \/ CallVerify

SpecVerify == HashInit /\ [][VerifyNext]_vars

----------------------------------------------------------------------------
(* Claims about the hash engines.                                          *)

VerifyCalls == {c \in Range(calls) : c.op = "verify"}

\* C4: for every header byte string of at least the minimum length and
\* every nonce, Verify neither fails nor panics, returns true when given the
\* mix digest and the final hash that Hash returns for the same input, and
\* returns false when either supplied value differs from the computed one
\* (here: in one bit).
C4_VerifyIsExactEquality ==
    \A c \in VerifyCalls :
        Len(tab.inputs[c.inp]) >= MinHeaderLen =>
            /\ ~c.out.panic
            /\ ~c.out.err
            /\ c.out.ok <=> (c.mixDigest = c.computed.mix /\ c.hash = c.computed.hash)

\* The same statement for the internal engine alone, which does satisfy it.
InternalVerifyIsExact ==
    \A c \in VerifyCalls :
        (c.engine = "internal" /\ Len(tab.inputs[c.inp]) >= MinHeaderLen) =>
            /\ ~c.out.panic
            /\ ~c.out.err
            /\ c.out.ok <=> (c.mixDigest = c.computed.mix /\ c.hash = c.computed.hash)

\* The standalone Verify never panics on a slice that passed the length
\* check of Hash (violated: headerBytes[180:212] on 172..211 bytes).
StandaloneVerifyNeverPanics ==
    \A c \in VerifyCalls : c.engine = "standalone" => ~c.out.panic

\* The standalone Verify accepts the digests Hash returned for the same
\* input (violated: the final hash is read from the header bytes).
StandaloneVerifyAcceptsComputed ==
    \A c \in VerifyCalls :
        (c.engine = "standalone" /\ ~c.out.panic /\ ~c.out.err
            /\ c.mixDigest = c.computed.mix /\ c.hash = c.computed.hash) => c.out.ok

\* C5: any two Hash calls with equal inputs return equal (finalHash,
\* mixDigest), also on instances created by New() at different times, and
\* PowHashV2 of one header returns the same hash on every invocation.
C5_HashIsPure ==
    \A a, b \in Range(calls) :
        /\ (a.op = "hash" /\ b.op = "hash" /\ a.engine = b.engine
              /\ a.inp = b.inp /\ a.nonce = b.nonce) => a.out = b.out
        /\ (a.op = "pow" /\ b.op = "pow" /\ a.inp = b.inp) => a.out = b.out

\* Hash calls of the internal engine with equal inputs agree when the two
\* instances were created in the same cache generation.
InternalHashPureWithinGeneration ==
    \A a, b \in Range(calls) :
        (a.op = "hash" /\ b.op = "hash" /\ a.engine = "internal" /\ b.engine = "internal"
            /\ a.inp = b.inp /\ a.nonce = b.nonce
            /\ kps[a.k].cacheGen = kps[b.k].cacheGen) => a.out = b.out

\* PowHashV2 of one header returns the same hash on every invocation.
PowHashV2IsStable ==
    \A a, b \in Range(calls) :
        (a.op = "pow" /\ b.op = "pow" /\ a.inp = b.inp) => a.out = b.out

\* Hash calls of the internal engine with equal inputs agree, whichever
\* instances they are made on (violated: instances of different cache
\* generations).
InternalHashIsPure ==
    \A a, b \in Range(calls) :
        (a.op = "hash" /\ b.op = "hash" /\ a.engine = "internal" /\ b.engine = "internal"
            /\ a.inp = b.inp /\ a.nonce = b.nonce) => a.out = b.out

\* Hash calls of the standalone engine with equal inputs agree.
StandaloneHashIsPure ==
    \A a, b \in Range(calls) :
        (a.op = "hash" /\ b.op = "hash" /\ a.engine = "standalone" /\ b.engine = "standalone"
            /\ a.inp = b.inp /\ a.nonce = b.nonce) => a.out = b.out

----------------------------------------------------------------------------
(* The proof-of-work verifier (internal/blockchain/validate.go) over       *)
(* standalone.CheckProofOfWork.  A big.Int is held as a sign and the       *)
(* big-endian bytes of its magnitude without leading zeros.                *)

RECURSIVE StripZeros(_)
StripZeros(b) == IF Len(b) > 0 /\ b[1] = 0 THEN StripZeros(Tail(b)) ELSE b

\* new(big.Int).SetBytes(b)
BigFromBytes(b) == [neg |-> FALSE, mag |-> StripZeros(b)]

BigSign(x) == IF Len(x.mag) = 0 THEN 0 ELSE IF x.neg THEN -1 ELSE 1

RECURSIVE LexCmp(_, _)
\* -1, 0 or 1: the order of two byte strings of one length.
LexCmp(a, b) ==
    IF Len(a) = 0 THEN 0
    ELSE IF a[1] < b[1] THEN -1
    ELSE IF a[1] > b[1] THEN 1
    ELSE LexCmp(Tail(a), Tail(b))

MagCmp(a, b) ==
    IF Len(a) < Len(b) THEN -1 ELSE IF Len(a) > Len(b) THEN 1 ELSE LexCmp(a, b)

\* x.Cmp(y)
BigCmp(x, y) ==
    IF BigSign(x) # BigSign(y) THEN (IF BigSign(x) < BigSign(y) THEN -1 ELSE 1)
    ELSE IF BigSign(x) >= 0 THEN MagCmp(x.mag, y.mag)
    ELSE MagCmp(y.mag, x.mag)

Reverse(b) == [i \in 1..Len(b) |-> b[Len(b) + 1 - i]] \o <<>>

\* standalone.HashToBig: the hash bytes are little-endian.
HashToBig(hash) == BigFromBytes(Reverse(hash))

\* standalone.CompactToBig: a 23-bit mantissa, a sign bit and an 8-bit
\* exponent counting the bytes of the number.
CompactToBig(compact) ==
    LET mantissa == compact % 8388608
        isNegative == (compact \div 8388608) % 2 = 1
        exponent == compact \div 16777216
        mbytes == <<mantissa \div 65536, (mantissa \div 256) % 256, mantissa % 256>>
        mag == IF exponent <= 3 THEN SubSeq(mbytes, 1, exponent)
               ELSE mbytes \o ZeroBytes(exponent - 3)
    IN  [neg |-> isNegative /\ Len(StripZeros(mag)) > 0, mag |-> StripZeros(mag)]

NoError == "nil"

ErrInvalidPoW == "invalid proof of work"

\* standalone.CheckProofOfWork: the target must be positive and at most the
\* limit, and the hash, as a number, at most the target.
CheckProofOfWork(powHash, difficultyBits, powLimit) ==
    LET target == CompactToBig(difficultyBits)
    IN  IF BigSign(target) <= 0 THEN "ErrUnexpectedDifficulty"
        ELSE IF BigCmp(target, powLimit) > 0 THEN "ErrUnexpectedDifficulty"
        ELSE IF BigCmp(HashToBig(powHash), target) > 0 THEN "ErrHighHash"
        ELSE NoError

standaloneToChainRuleError(err) == IF err = NoError THEN NoError ELSE ErrInvalidPoW

\* BlockHeader.BlockHash
BlockHash(h) == HashH(writeBlockHeader(h).bytes)

\* BlockHeader.PowHashV1
PowHashV1(h) == BlockHash(h)

\* checkProofOfWork once header.PowHashV1() returned powHashV1, where
\* header.PowHashV2() returns powHashV2 if it is called: hashed lists the
\* hash functions applied.
checkProofOfWorkWith(powHashV1, powHashV2, bits, powLimit) ==
    LET err1 == CheckProofOfWork(powHashV1, bits, powLimit)
    IN  IF err1 = NoError
        THEN [err |-> standaloneToChainRuleError(err1), hashed |-> <<"V1">>, panic |-> FALSE]
        ELSE IF powHashV2.panic
        THEN [err |-> NoError, hashed |-> <<"V1", "V2">>, panic |-> TRUE]
        ELSE [err |-> standaloneToChainRuleError(
                          CheckProofOfWork(powHashV2.hash, bits, powLimit)),
              hashed |-> <<"V1", "V2">>, panic |-> FALSE]

\* checkProofOfWork(header, powLimit) at the given wall-clock time.
checkProofOfWork(header, powLimit, clock) ==
    checkProofOfWorkWith(PowHashV1(header), PowHashV2(header, clock), header.Bits, powLimit)

----------------------------------------------------------------------------
(* The proof-of-work scenario: checkProofOfWork is called on a few headers *)
(* at different wall-clock times.  Whether the hash-function upgrade is    *)
(* active for the header's predecessor is a fact of the chain that         *)
(* checkProofOfWork has no parameter for; it is recorded with each call.   *)

MaxChecks == 2

\* chaincfg.MainPowLimit: 2^224 - 1
MainPowLimit == BigFromBytes([i \in 1..28 |-> 255] \o <<>>)

\* The proof-of-work limit of a test network: 2^255 - 1
TestPowLimit == BigFromBytes(<<127>> \o ([i \in 1..31 |-> 255] \o <<>>))

PowLimits == <<MainPowLimit, TestPowLimit>>

\* 0x207fffff, the compact form of TestPowLimit; 0x1d00ffff is PowLimitBits;
\* 0x1d80ffff has the sign bit set.
EasyBits == 545259519

PowCheckHeader(nonce, bits) == [PowHeader(nonce) EXCEPT !.Bits = bits]

\* The headers checked.  Under EasyBits the nonces 1, 2, 3 and 7 give the
\* four combinations of the two hashes meeting and missing the target.
PowCheckHeaders ==
    <<PowCheckHeader(1, EasyBits), PowCheckHeader(2, EasyBits),
      PowCheckHeader(3, EasyBits), PowCheckHeader(7, EasyBits),
      PowCheckHeader(2, BitsSamples[1]), PowCheckHeader(2, 494993407)>>

PowHashV1Table(headers) == [i \in 1..Len(headers) |-> PowHashV1(headers[i])] \o <<>>

PowTables(headers, maxGen) ==
    [headers |-> headers, v1 |-> PowHashV1Table(headers),
     pow |-> PowHashTable(maxGen, headers)]

PowInit ==
    /\ now = 0
    /\ kps = <<>>
    /\ calls = <<>>
    /\ tab = PowTables(PowCheckHeaders, MaxGen)
    /\ CodecIdle
    /\ WorkIdle
    /\ DiffIdle
    /\ DagIdle
    /\ LockIdle

\* checkProofOfWork(header, powLimit)
CallCheckProofOfWork ==
    /\ Len(calls) < MaxChecks
    /\ \E i \in DOMAIN tab.headers, l \in DOMAIN PowLimits, active \in BOOLEAN :
          LET v1 == tab.v1[i]
              v2 == tab.pow[(now \div CacheGenPeriod) + 1][i]
          IN  calls' = Append(calls,
                         [op |-> "check", inp |-> i, limit |-> l, active |-> active,
                          at |-> now, v1 |-> v1, v2 |-> v2,
                          out |-> checkProofOfWorkWith(v1, v2, tab.headers[i].Bits,
                                                       PowLimits[l])])
    /\ UNCHANGED <<now, kps, tab>>
    /\ UNCHANGED nonHashVars

PowNext == Tick \/ CallCheckProofOfWork

SpecPow == PowInit /\ [][PowNext]_vars

PowChecks == {calls[j] : j \in {j \in DOMAIN calls : calls[j].op = "check"}}

\* What standalone.CheckProofOfWork returns for the hash of the version
\* that applies to a recorded call.
ApplicableCheck(c) ==
    CheckProofOfWork(IF c.active THEN c.v2.hash ELSE c.v1,
                     tab.headers[c.inp].Bits, PowLimits[c.limit])

\* What it returns for the hash of the other version.
OtherCheck(c) ==
    CheckProofOfWork(IF c.active THEN c.v1 ELSE c.v2.hash,
                     tab.headers[c.inp].Bits, PowLimits[c.limit])

\* C6: the verifier checks a header against the one hash function the
\* activation state of its predecessor selects: a header whose hash under
\* that version misses the target is rejected with ErrInvalidPoW, also when
\* the other version's hash meets the target.
C6_OneHashSelectedByActivation ==
    \A c \in PowChecks :
        (~c.v2.panic /\ ApplicableCheck(c) # NoError) => c.out.err = ErrInvalidPoW

\* The verifier accepts a header exactly when either of the two hashes
\* passes, and applies the second hash only after the first failed.
CheckAcceptsEitherHash ==
    \A c \in PowChecks :
        /\ ~c.out.panic
        /\ c.out.err = NoError <=> (ApplicableCheck(c) = NoError \/ OtherCheck(c) = NoError)
        /\ c.out.err # NoError => c.out.err = ErrInvalidPoW
        /\ c.out.hashed = (IF CheckProofOfWork(c.v1, tab.headers[c.inp].Bits,
                                               PowLimits[c.limit]) = NoError
                           THEN <<"V1">> ELSE <<"V1", "V2">>)

\* A header accepted although the applicable hash misses the target.
AcceptedOnOtherHash ==
    \E c \in PowChecks :
        ApplicableCheck(c) = "ErrHighHash" /\ OtherCheck(c) = NoError /\ c.out.err = NoError

\* Each combination of the two hashes meeting the target occurs.
AllHashOutcomes ==
    \A p1 \in BOOLEAN, p2 \in BOOLEAN :
        \E i \in DOMAIN tab.headers :
            /\ (CheckProofOfWork(tab.v1[i], tab.headers[i].Bits, TestPowLimit) = NoError) = p1
            /\ (CheckProofOfWork(tab.pow[1][i].hash, tab.headers[i].Bits, TestPowLimit) = NoError) = p2

----------------------------------------------------------------------------
(* The getwork RPC for KawPoW (package rpcserver).  A string is held as    *)
(* the sequence of its character codes.                                    *)

\* hextable = "0123456789abcdef"
HexDigit(n) == IF n < 10 THEN 48 + n ELSE 87 + n

\* hex.EncodeToString
EncodeToString(b) ==
    [i \in 1..(2 * Len(b)) |->
        IF i % 2 = 1 THEN HexDigit(b[(i + 1) \div 2] \div 16)
        ELSE HexDigit(b[i \div 2] % 16)] \o <<>>

\* The value of a hexadecimal character, 16 for any other character.
FromHexChar(c) ==
    IF c >= 48 /\ c <= 57 THEN c - 48
    ELSE IF c >= 97 /\ c <= 102 THEN c - 87
    ELSE IF c >= 65 /\ c <= 70 THEN c - 55
    ELSE 16

\* hex.DecodeString: an error for a character that is no hexadecimal digit
\* and for an odd length.
DecodeString(s) ==
    IF (\E i \in DOMAIN s : FromHexChar(s[i]) = 16) \/ Len(s) % 2 = 1
    THEN [bytes |-> NoBytes, err |-> TRUE]
    ELSE [bytes |-> [i \in 1..(Len(s) \div 2) |->
                        16 * FromHexChar(s[2 * i - 1]) + FromHexChar(s[2 * i])] \o <<>>,
          err |-> FALSE]

\* make([]byte, 8+32)
WorkPadLen == 40

\* serializeGetWorkDataKawPow that stops before the header's Nonce field and
\* pads from there.
serializeGetWorkDataNoNonce(header) ==
    LET b == Serialize(header)
    IN  IF b.err THEN [bytes |-> NoBytes, err |-> TRUE]
        ELSE [bytes |-> SubSeq(b.bytes, 1, NonceOffset) \o ZeroBytes(WorkPadLen),
              err |-> FALSE]

\* serializeGetWorkDataKawPow of the RPC server: the serialized header
\* followed by 40 zero bytes.
serializeGetWorkDataKawPow(header) ==
    LET b == Serialize(header)
    IN  IF b.err THEN [bytes |-> NoBytes, err |-> TRUE]
        ELSE [bytes |-> b.bytes \o ZeroBytes(WorkPadLen), err |-> FALSE]

\* kawpowDataLen = wire.MaxBlockHeaderPayload + 32
KawpowDataLen == MaxBlockHeaderPayload + 32

\* serializeGetWorkDataKawPow of rpcserver_kawpow.go: the buffer writes
\* into the array under data, and data[:kawpowDataLen] is that array up to
\* its capacity: the serialized header and zeros after it.
serializeGetWorkDataResliced(header) ==
    LET b == Serialize(header)
    IN  IF b.err THEN [bytes |-> NoBytes, err |-> TRUE]
        ELSE [bytes |-> b.bytes \o ZeroBytes(KawpowDataLen - Len(b.bytes)), err |-> FALSE]

\* The function of that name the server is built with.
SerializeWork(variant, header) ==
    IF variant = "padded" THEN serializeGetWorkDataKawPow(header)
    ELSE serializeGetWorkDataResliced(header)

\* What the package-level kawpow.Hash called by CheckKawPoWProof may return:
\* an error, or a hash and a mix digest.  The samples are the zero digest, a
\* non-zero one, a hash below every positive target and one above every
\* target within 32 bytes.
HashOutcomes ==
    {[hash |-> NoBytes, mix |-> NoBytes, err |-> TRUE],
     [hash |-> ZeroBytes(HashSize), mix |-> ZeroBytes(HashSize), err |-> FALSE],
     [hash |-> ZeroBytes(HashSize), mix |-> Pattern(5, HashSize), err |-> FALSE],
     [hash |-> [i \in 1..HashSize |-> 255] \o <<>>, mix |-> ZeroBytes(HashSize),
      err |-> FALSE]}

\* The answers of chain.IsKawPowActive.
KawPowStates == {"active", "inactive", "error"}

\* Server.CheckKawPoWProof once the header's Bits are known, where
\* chain.IsKawPowActive answers kawpow, serializeGetWorkDataKawPow returns
\* ser and kawpow.Hash returns out, each if it is called: (isValid, err),
\* with the calls made and the nonce (as its eight little-endian bytes) and
\* the mix digest taken from the serialized work data.
CheckKawPoWProofOf(kawpow, out, bits, ser) ==
    LET none == [valid |-> FALSE, err |-> TRUE, events |-> <<"IsKawPowActive">>,
                 nonce |-> NoBytes, mixDigest |-> NoBytes]
        n == Len(ser.bytes)
        hashed == [valid |-> FALSE, err |-> FALSE,
                   events |-> <<"IsKawPowActive", "CalcSeedHash", "Hash">>,
                   nonce |-> SubSeq(ser.bytes, n - 40 + 1, n - 32),
                   mixDigest |-> SubSeq(ser.bytes, n - 32 + 1, n)]
    IN  IF kawpow # "active" THEN none
        ELSE IF ser.err THEN none
        ELSE IF out.err THEN [hashed EXCEPT !.err = TRUE]
        ELSE IF hashed.mixDigest # out.mix THEN hashed
        ELSE IF BigCmp(BigFromBytes(out.hash), CompactToBig(bits)) > 0 THEN hashed
        ELSE [hashed EXCEPT !.valid = TRUE]

\* Server.CheckKawPoWProof(header)
CheckKawPoWProof(variant, kawpow, out, header) ==
    CheckKawPoWProofOf(kawpow, out, header.Bits, SerializeWork(variant, header))

RPCNoError == "nil"

\* A nil result or a nil *string, apart from every string.
Nil == <<-1>>

\* c.Data == nil
NoData == Nil

\* "rejected"
Rejected == <<114, 101, 106, 101, 99, 116, 101, 100>>

\* The result of a handler: the value returned, the error returned and the
\* calls made on the chain, the block generator and the sync manager.
Reply(result, err, events) == [result |-> result, err |-> err, events |-> events]

\* handleGetWorkSubmissionKawPow without the return of "rejected": the
\* header is submitted whatever the proof check found.
SubmissionOfUnchecked(submit, decoded, header, proof) ==
    IF decoded.err THEN Reply(Nil, "ErrRPCDecodeHex", <<"DecodeString">>)
    ELSE IF header.err
    THEN Reply(Nil, "ErrRPCInternal", <<"DecodeString", "Deserialize">>)
    ELSE IF proof.err
    THEN Reply(Nil, "ErrRPCInternal",
               <<"DecodeString", "Deserialize", "CheckKawPoWProof">> \o proof.events)
    ELSE Reply(Nil, IF submit = RPCNoError THEN RPCNoError ELSE "ErrRPCInternal",
               <<"DecodeString", "Deserialize", "CheckKawPoWProof">>
                   \o proof.events \o <<"SubmitBlock">>)

\* handleGetWorkSubmissionKawPow once hex.DecodeString returned decoded,
\* where header.Deserialize returns header, CheckKawPoWProof returns proof
\* and SyncMgr.SubmitBlock returns submit, each if it is called.
SubmissionOf(submit, decoded, header, proof) ==
    IF decoded.err THEN Reply(Nil, "ErrRPCDecodeHex", <<"DecodeString">>)
    ELSE IF header.err
    THEN Reply(Nil, "ErrRPCInternal", <<"DecodeString", "Deserialize">>)
    ELSE IF proof.err
    THEN Reply(Nil, "ErrRPCInternal",
               <<"DecodeString", "Deserialize", "CheckKawPoWProof">> \o proof.events)
    ELSE IF ~proof.valid
    THEN Reply(Rejected, RPCNoError,
               <<"DecodeString", "Deserialize", "CheckKawPoWProof">> \o proof.events)
    ELSE Reply(Nil, IF submit = RPCNoError THEN RPCNoError ELSE "ErrRPCInternal",
               <<"DecodeString", "Deserialize", "CheckKawPoWProof">>
                   \o proof.events \o <<"SubmitBlock">>)

\* handleGetWorkSubmissionKawPow(ctx, data)
handleGetWorkSubmissionKawPow(variant, kawpow, out, submit, data) ==
    LET decoded == DecodeString(data)
        header == Deserialize(decoded.bytes)
    IN  SubmissionOf(submit, decoded, header,
                     CheckKawPoWProof(variant, kawpow, out, header.hdr))

\* hex.EncodeToString(data) of what serializeGetWorkDataKawPow returns.
WorkPayload(variant, header) ==
    LET data == SerializeWork(variant, header)
    IN  IF data.err THEN [hex |-> <<>>, err |-> TRUE]
        ELSE [hex |-> EncodeToString(data.bytes), err |-> FALSE]

\* handleGetWorkRequestKawPow without the check of the activation state.
RequestOfAnyState(kawpow, template, payload) ==
    IF kawpow = "error" THEN Reply(Nil, "ErrRPCInternal", <<"IsKawPowActive">>)
    ELSE IF template.err
    THEN Reply(Nil, "ErrRPCInternal", <<"IsKawPowActive", "GenerateNewBlock">>)
    ELSE IF payload.err
    THEN Reply(Nil, "ErrRPCInternal", <<"IsKawPowActive", "GenerateNewBlock">>)
    ELSE Reply(payload.hex, RPCNoError, <<"IsKawPowActive", "GenerateNewBlock">>)

\* handleGetWorkRequestKawPow, where GenerateNewBlock returns template and
\* the serialization of its header gives payload, each if it is called.
RequestOf(kawpow, template, payload) ==
    IF kawpow = "error" THEN Reply(Nil, "ErrRPCInternal", <<"IsKawPowActive">>)
    ELSE IF kawpow = "inactive" THEN Reply(Nil, "ErrRPCMisc", <<"IsKawPowActive">>)
    ELSE IF template.err
    THEN Reply(Nil, "ErrRPCInternal", <<"IsKawPowActive", "GenerateNewBlock">>)
    ELSE IF payload.err
    THEN Reply(Nil, "ErrRPCInternal", <<"IsKawPowActive", "GenerateNewBlock">>)
    ELSE Reply(payload.hex, RPCNoError, <<"IsKawPowActive", "GenerateNewBlock">>)

\* handleGetWorkRequestKawPow(ctx)
handleGetWorkRequestKawPow(variant, kawpow, template) ==
    RequestOf(kawpow, template, WorkPayload(variant, template.hdr))

\* handleGetWorkKawPow without the check of the chain's sync status.
GetWorkOfNoSyncCheck(s, data, submission, request) ==
    IF s.isMining THEN Reply(Nil, "ErrRPCMisc", <<>>)
    ELSE IF s.miningAddrs = 0 THEN Reply(Nil, "ErrRPCInternal", <<>>)
    ELSE IF ~s.allowUnsyncedMining /\ s.connectedCount = 0
    THEN Reply(Nil, "ErrRPCClientNotConnected", <<>>)
    ELSE IF data # NoData /\ data # <<>>
    THEN submission
    ELSE request

\* handleGetWorkKawPow(ctx, cmd) on the server s: the four precondition
\* checks, then the submission when cmd carries data and the request
\* otherwise.  submission and request are what the two handlers return if
\* they are called.
GetWorkOf(s, data, submission, request) ==
    LET initialChainState == s.bestHeaderHeight = 0 /\ s.bestHeight = 0
    IN  IF s.isMining THEN Reply(Nil, "ErrRPCMisc", <<>>)
        ELSE IF s.miningAddrs = 0 THEN Reply(Nil, "ErrRPCInternal", <<>>)
        ELSE IF ~s.allowUnsyncedMining /\ s.connectedCount = 0
        THEN Reply(Nil, "ErrRPCClientNotConnected", <<>>)
        ELSE IF ~s.allowUnsyncedMining /\ ~initialChainState /\ ~s.isCurrent
        THEN Reply(Nil, "ErrRPCClientInInitialDownload", <<>>)
        ELSE IF data # NoData /\ data # <<>>
        THEN submission
        ELSE request

handleGetWorkKawPow(s, out, submit, template, data) ==
    GetWorkOf(s, data,
              handleGetWorkSubmissionKawPow(s.variant, s.kawpow, out, submit, data),
              handleGetWorkRequestKawPow(s.variant, s.kawpow, template))

----------------------------------------------------------------------------
(* The work scenario: a server in some configuration answers one work      *)
(* request and then one submission; the activation state of KawPoW may      *)
(* change in between.  What the codec returns on the scenario's templates   *)
(* and payloads is computed in the initial state.                           *)

\* The block templates GenerateNewBlock returns: the nonce and the mix
\* digest are zero until the block is solved.  The last one carries a
\* sub-second timestamp.
Templates ==
    <<SampleHeader(1, 7500, Time(1640235744, 0), 0, ZeroBytes(32)),
      SampleHeader(2, 65537, Time(1640235744, 500000000), 0, ZeroBytes(32))>>

Variants == <<"padded", "resliced">>

\* "0000000000000000", the payload of TestKawPowSubmitInvalidBlock
ShortPayload == [i \in 1..16 |-> 48] \o <<>>

\* "0g" is no hexadecimal string, "000" has an odd length.
BadPayloads == <<<<48, 103>>, <<48, 48, 48>>>>

\* The payload in which a miner has written a nonce and a mix digest into
\* the header's fields.
SolvedPayload(payload) ==
    LET b == DecodeString(payload).bytes
    IN  EncodeToString(SubSeq(b, 1, NonceOffset) \o LEBytes(7, 8) \o Pattern(5, 32)
                           \o SubSeq(b, MixDigestOffset + 32 + 1, Len(b)))

\* What GenerateNewBlock may return, with the payload of each template.
TemplateTable(templates) ==
    <<[template |-> [hdr |-> NoHeader, err |-> TRUE], payload |-> NoResult]>> \o
    ([i \in 1..Len(templates) |->
        [template |-> [hdr |-> templates[i], err |-> FALSE],
         payload |-> [v \in {Variants[k] : k \in DOMAIN Variants} |->
                         WorkPayload(v, templates[i])]]] \o <<>>)

\* What the codec returns on submitted data: of is the payload it was made
\* from, if any, and the empty string otherwise.
SubmissionEntry(data, of) ==
    LET decoded == DecodeString(data)
        header == Deserialize(decoded.bytes)
        ok == ~decoded.err /\ ~header.err
    IN  [data |-> data, of |-> of, decoded |-> decoded,
         header |-> IF decoded.err THEN NoResult ELSE header,
         ser |-> IF ok
                 THEN [v \in {Variants[k] : k \in DOMAIN Variants} |->
                          SerializeWork(v, header.hdr)]
                 ELSE NoResult]

\* The data a client may submit: fixed strings and, for every payload the
\* server can hand out, the payload itself and the solved one.
SubmissionTable(templates) ==
    <<SubmissionEntry(ShortPayload, <<>>), SubmissionEntry(BadPayloads[1], <<>>),
      SubmissionEntry(BadPayloads[2], <<>>)>> \o
    ([j \in 1..(2 * Len(Variants) * Len(templates)) |->
        LET i == ((j - 1) \div (2 * Len(Variants))) + 1
            v == Variants[(((j - 1) \div 2) % Len(Variants)) + 1]
            payload == WorkPayload(v, templates[i]).hex
        IN  IF j % 2 = 1 THEN SubmissionEntry(payload, payload)
            ELSE SubmissionEntry(SolvedPayload(payload), payload)] \o <<>>)

WorkTables(templates) ==
    [templates |-> TemplateTable(templates), subs |-> SubmissionTable(templates)]

Servers ==
    [isMining : BOOLEAN, miningAddrs : 0..1, allowUnsyncedMining : BOOLEAN,
     connectedCount : 0..1, bestHeaderHeight : 0..1, bestHeight : 0..1,
     isCurrent : BOOLEAN, kawpow : KawPowStates,
     variant : {Variants[k] : k \in DOMAIN Variants}]

\* No payload handed out yet.
NoPayload == <<>>

\* No call of the handler yet.
NoCall == [kind |-> "none"]

WorkInit ==
    /\ tab = WorkTables(Templates)
    /\ srv \in Servers
    /\ work = NoPayload
    /\ rpc = NoCall
    /\ now = 0
    /\ kps = <<>>
    /\ calls = <<>>
    /\ CodecIdle
    /\ DiffIdle
    /\ DagIdle
    /\ LockIdle

\* The handler made the given call.
Called(reply, name) == \E i \in DOMAIN reply.events : reply.events[i] = name

\* getwork without data
RequestWork ==
    /\ rpc = NoCall
    /\ \E t \in DOMAIN tab.templates, data \in {NoData, <<>>} :
          LET e == tab.templates[t]
              reply == GetWorkOf(srv, data, NoResult,
                                 RequestOf(srv.kawpow, e.template,
                                           IF e.template.err THEN NoResult
                                           ELSE e.payload[srv.variant]))
          IN  /\ rpc' = [kind |-> "request", data |-> data,
                         template |-> IF Called(reply, "GenerateNewBlock")
                                      THEN e.template ELSE NoResult,
                         reply |-> reply, srv |-> srv]
              /\ work' = IF reply.err = RPCNoError THEN reply.result ELSE work
    /\ UNCHANGED <<srv, now, kps, calls, tab>>
    /\ UNCHANGED codecVars
    /\ UNCHANGED <<diffVars, dagVars, lockVars>>

\* After work was handed out the deployment leaves activation, or the chain
\* fails to answer.
SetKawPowState ==
    /\ rpc.kind = "request"
    /\ work # NoPayload
    /\ srv = rpc.srv
    /\ \E k \in KawPowStates \ {srv.kawpow} : srv' = [srv EXCEPT !.kawpow = k]
    /\ UNCHANGED <<work, rpc, now, kps, calls, tab>>
    /\ UNCHANGED codecVars
    /\ UNCHANGED <<diffVars, dagVars, lockVars>>

\* getwork with data
SubmitWork ==
    /\ rpc.kind \in {"none", "request"}
    /\ \E d \in DOMAIN tab.subs, out \in HashOutcomes, submit \in {RPCNoError, "error"} :
          LET e == tab.subs[d]
              proof == CheckKawPoWProofOf(srv.kawpow, out, e.header.hdr.Bits,
                                          e.ser[srv.variant])
              reply == GetWorkOf(srv, e.data,
                                 SubmissionOf(submit, e.decoded, e.header, proof),
                                 NoResult)
          IN  rpc' = [kind |-> "submit", data |-> e.data, decoded |-> e.decoded,
                      header |-> e.header,
                      out |-> IF Called(reply, "Hash") THEN out ELSE NoResult,
                      submit |-> IF Called(reply, "SubmitBlock")
                                 THEN submit ELSE NoResult,
                      proof |-> IF Called(reply, "CheckKawPoWProof")
                                THEN proof ELSE NoResult,
                      srv |-> srv, unmodified |-> e.data = work, reply |-> reply]
    /\ UNCHANGED <<srv, work, now, kps, calls, tab>>
    /\ UNCHANGED codecVars
    /\ UNCHANGED <<diffVars, dagVars, lockVars>>

WorkNext == RequestWork \/ SetKawPowState \/ SubmitWork

SpecWork == WorkInit /\ [][WorkNext]_vars

-----------------------------------------------------------------------------
(* Claims about the work protocol.                                         *)

\* The event a comes before the event b in the calls a reply records.
Before(reply, a, b) ==
    \E i, j \in DOMAIN reply.events :
        i < j /\ reply.events[i] = a /\ reply.events[j] = b

\* One of the four precondition gates of handleGetWorkKawPow is closed.
Gated(s) ==
    \/ s.isMining
    \/ s.miningAddrs = 0
    \/ ~s.allowUnsyncedMining /\ s.connectedCount = 0
    \/ /\ ~s.allowUnsyncedMining
       /\ ~s.isCurrent
       /\ ~(s.bestHeaderHeight = 0 /\ s.bestHeight = 0)

\* The handler was called, with or without data.
Handled == rpc.kind \in {"request", "submit"}

\* kawpow.Hash returned a hash above the target expanded from the header's
\* Bits.
HashAboveTarget ==
    /\ Called(rpc.reply, "Hash")
    /\ ~rpc.out.err
    /\ BigCmp(BigFromBytes(rpc.out.hash), CompactToBig(rpc.header.hdr.Bits)) > 0

\* C7: SyncMgr.SubmitBlock is called only after CheckKawPoWProof returned
\* valid for the decoded header; when the proof check finds the header not
\* to meet its target the handler returns "rejected" with no error and
\* SubmitBlock is not called.
C7_SubmitOnlyAfterValidProof ==
    rpc.kind = "submit" =>
        /\ Called(rpc.reply, "SubmitBlock") =>
              /\ Before(rpc.reply, "CheckKawPoWProof", "SubmitBlock")
              /\ rpc.proof.valid
              /\ ~rpc.proof.err
        /\ (Called(rpc.reply, "CheckKawPoWProof") /\ ~rpc.proof.err /\ ~rpc.proof.valid) =>
              /\ rpc.reply.result = Rejected
              /\ rpc.reply.err = RPCNoError
              /\ ~Called(rpc.reply, "SubmitBlock")
        /\ HashAboveTarget =>
              /\ rpc.reply.result = Rejected
              /\ rpc.reply.err = RPCNoError
              /\ ~Called(rpc.reply, "SubmitBlock")

\* A submission whose hash is above its target was answered "rejected", the
\* mix digest being the expected one.
C7_Witness ==
    /\ rpc.kind = "submit"
    /\ HashAboveTarget
    /\ rpc.out.mix = rpc.proof.mixDigest
    /\ rpc.reply.result = Rejected

\* C8: a submitted payload that is not valid hex, or whose decoded bytes are
\* shorter than the encoded header, makes the handler return an error
\* (neither "rejected" nor success), and neither CheckKawPoWProof nor
\* SubmitBlock is called.
C8_ShortOrBadPayloadIsAnError ==
    (rpc.kind = "submit"
        /\ (rpc.decoded.err \/ Len(rpc.decoded.bytes) < MaxBlockHeaderPayload)) =>
        /\ rpc.reply.err # RPCNoError
        /\ rpc.reply.result = Nil
        /\ ~Called(rpc.reply, "CheckKawPoWProof")
        /\ ~Called(rpc.reply, "Hash")
        /\ ~Called(rpc.reply, "SubmitBlock")

\* With every gate open and KawPoW active, the eight-byte payload reached
\* Deserialize and was answered with an internal error.
C8_Witness ==
    /\ rpc.kind = "submit"
    /\ ~Gated(rpc.srv)
    /\ rpc.srv.kawpow = "active"
    /\ rpc.data = ShortPayload
    /\ Called(rpc.reply, "Deserialize")
    /\ rpc.reply.err = "ErrRPCInternal"

\* C9: when KawPoW is not active for the block after the tip, a work request
\* returns an error, generates no template and returns no payload, and a
\* submission returns an error, not "rejected", and nothing is submitted.
C9_InactiveIsAnError ==
    (Handled /\ rpc.srv.kawpow = "inactive") =>
        /\ rpc.reply.err # RPCNoError
        /\ rpc.reply.result = Nil
        /\ ~Called(rpc.reply, "GenerateNewBlock")
        /\ ~Called(rpc.reply, "SubmitBlock")

\* Work was handed out while KawPoW was active, the deployment left
\* activation, and the unmodified payload was submitted with every gate open.
C9_Witness ==
    /\ rpc.kind = "submit"
    /\ rpc.unmodified
    /\ ~Gated(rpc.srv)
    /\ rpc.srv.kawpow = "inactive"
    /\ Called(rpc.reply, "IsKawPowActive")

\* C10: whenever one of the four gates is closed, handleGetWorkKawPow
\* returns an error and calls nothing: no template is generated, nothing is
\* decoded, verified or submitted; requests and submissions alike.
C10_GatesComeFirst ==
    (Handled /\ Gated(rpc.srv)) =>
        /\ rpc.reply.err # RPCNoError
        /\ rpc.reply.result = Nil
        /\ rpc.reply.events = <<>>

\* A decodable header was submitted to a server that is stopped by the last
\* gate alone: it has peers, is not current and is past the bootstrap state.
C10_Witness ==
    /\ rpc.kind = "submit"
    /\ ~rpc.decoded.err
    /\ ~rpc.header.err
    /\ ~rpc.srv.isMining
    /\ rpc.srv.miningAddrs > 0
    /\ rpc.srv.connectedCount > 0
    /\ ~rpc.srv.allowUnsyncedMining
    /\ ~rpc.srv.isCurrent
    /\ rpc.srv.bestHeight > 0
    /\ rpc.reply.err = "ErrRPCClientInInitialDownload"

\* The header decoded from the payload a work request returned.
PayloadHeader ==
    LET d == DecodeString(rpc.reply.result)
    IN  IF d.err THEN [hdr |-> NoHeader, err |-> TRUE] ELSE Deserialize(d.bytes)

\* A work request returned a payload.
WorkReturned == rpc.kind = "request" /\ rpc.reply.err = RPCNoError

\* The submission was answered with success (nil, nil) or with "rejected".
SuccessOrRejected ==
    rpc.reply.err = RPCNoError /\ rpc.reply.result \in {Nil, Rejected}

\* C11: the payload a work request returns for a header is valid hex and
\* decodes without error; when the header's Timestamp has whole-second
\* precision and fits an unsigned 32-bit second count the decoded header
\* equals it in every field; and submitting the unmodified payload never
\* fails in the hex decoder or the header decoder: with the gates open the
\* proof check is reached, and the outcome is success or "rejected" when the
\* proof check and SubmitBlock return no error.
C11_PayloadRoundTrip ==
    /\ WorkReturned =>
          /\ ~PayloadHeader.err
          /\ (rpc.template.hdr.Timestamp.nsec = 0
                  /\ FitsUint32(rpc.template.hdr.Timestamp.sec))
                => PayloadHeader.hdr = rpc.template.hdr
    /\ (rpc.kind = "submit" /\ rpc.unmodified) =>
          /\ ~rpc.decoded.err
          /\ ~rpc.header.err
          /\ rpc.reply.err # "ErrRPCDecodeHex"
          /\ ~Gated(rpc.srv) => Called(rpc.reply, "CheckKawPoWProof")
          /\ (Called(rpc.reply, "CheckKawPoWProof") /\ ~rpc.proof.err
                  /\ (Called(rpc.reply, "SubmitBlock") => rpc.submit = RPCNoError))
                => SuccessOrRejected

\* The payload handed out for a header with a whole-second timestamp came
\* back unmodified and was accepted, the block being submitted.
C11_Witness ==
    /\ rpc.kind = "submit"
    /\ rpc.unmodified
    /\ rpc.header.hdr.Timestamp.nsec = 0
    /\ Called(rpc.reply, "SubmitBlock")
    /\ rpc.reply.err = RPCNoError

\* C11 as stated: for every header the payload decodes to a header equal to
\* it, and an unmodified submission ends in success or "rejected".
C11_RoundTripForEveryHeader ==
    /\ WorkReturned => (~PayloadHeader.err /\ PayloadHeader.hdr = rpc.template.hdr)
    /\ (rpc.kind = "submit" /\ rpc.unmodified /\ ~Gated(rpc.srv)) =>
          (rpc.reply.err # "ErrRPCDecodeHex" /\ SuccessOrRejected)

-----------------------------------------------------------------------------
(* math/big as the difficulty engine uses it.  A big.Int is its sign and   *)
(* its magnitude, the big-endian bytes of the absolute value without       *)
(* leading zeros, as in the proof verifier above.                          *)

MaxOf(a, b) == IF a >= b THEN a ELSE b

MinOf(a, b) == IF a <= b THEN a ELSE b

RECURSIVE MagOfInt(_)
\* The magnitude of a non-negative machine integer.
MagOfInt(n) == IF n = 0 THEN <<>> ELSE MagOfInt(n \div 256) \o <<n % 256>>

RECURSIVE IntOfMag(_)
IntOfMag(m) ==
    IF Len(m) = 0 THEN 0
    ELSE 256 * IntOfMag(SubSeq(m, 1, Len(m) - 1)) + m[Len(m)]

\* big.NewInt(n)
NewInt(n) == [neg |-> n < 0, mag |-> MagOfInt(IF n < 0 THEN -n ELSE n)]

\* x.Int64(): the low 64 bits of the magnitude, with the sign of x.
Int64(x) ==
    LET low == IntOfMag(SubSeq(x.mag, MaxOf(1, Len(x.mag) - 7), Len(x.mag)))
    IN  IF x.neg THEN -low ELSE low

RECURSIVE Carry(_, _)
\* The bytes of a number given as digit values that may exceed a byte.
Carry(d, c) ==
    IF Len(d) = 0 THEN MagOfInt(c)
    ELSE Carry(SubSeq(d, 1, Len(d) - 1), (d[Len(d)] + c) \div 256)
             \o <<(d[Len(d)] + c) % 256>>

RECURSIVE Borrow(_, _)
\* The bytes of a non-negative number given as digit differences.
Borrow(d, c) ==
    IF Len(d) = 0 THEN <<>>
    ELSE Borrow(SubSeq(d, 1, Len(d) - 1), IF d[Len(d)] - c < 0 THEN 1 ELSE 0)
             \o <<(d[Len(d)] - c + 256) % 256>>

PadTo(m, n) == ZeroBytes(n - Len(m)) \o m

MagAdd(a, b) ==
    LET n == MaxOf(Len(a), Len(b))
    IN  StripZeros(Carry([i \in 1..n |-> PadTo(a, n)[i] + PadTo(b, n)[i]] \o <<>>, 0))

\* a - b for a >= b
MagSub(a, b) ==
    LET n == Len(a)
    IN  StripZeros(Borrow([i \in 1..n |-> a[i] - PadTo(b, n)[i]] \o <<>>, 0))

\* a * k for a machine integer 0 <= k < 2^23
MagMulSmall(a, k) == StripZeros(Carry([i \in 1..Len(a) |-> a[i] * k] \o <<>>, 0))

RECURSIVE SumProd(_, _, _, _, _)
\* The sum of a[i] * b[k + 1 - i] over lo <= i <= hi.
SumProd(a, b, k, lo, hi) ==
    IF lo > hi THEN 0
    ELSE IF lo = hi THEN a[lo] * b[k + 1 - lo]
    ELSE SumProd(a, b, k, lo, (lo + hi) \div 2)
             + SumProd(a, b, k, ((lo + hi) \div 2) + 1, hi)

MagMul(a, b) ==
    IF Len(a) = 0 \/ Len(b) = 0 THEN <<>>
    ELSE StripZeros(Carry([k \in 1..(Len(a) + Len(b) - 1) |->
                              SumProd(a, b, k, MaxOf(1, k + 1 - Len(b)),
                                      MinOf(Len(a), k))] \o <<>>, 0))

RECURSIVE QuoDigit(_, _, _, _)
\* The largest d in lo..hi with b * d <= r.
QuoDigit(r, b, lo, hi) ==
    IF lo = hi THEN lo
    ELSE IF MagCmp(MagMulSmall(b, (lo + hi + 1) \div 2), r) <= 0
    THEN QuoDigit(r, b, (lo + hi + 1) \div 2, hi)
    ELSE QuoDigit(r, b, lo, ((lo + hi + 1) \div 2) - 1)

\* One step of the long division by b: p is <<quotient, remainder>> of the
\* digits before digit.
DivStep(p, digit, b) ==
    CHOOSE s \in {<<StripZeros(p[1] \o <<d>>),
                    MagSub(StripZeros(p[2] \o <<digit>>), MagMulSmall(b, d))>> :
                  d \in {QuoDigit(StripZeros(p[2] \o <<digit>>), b, 0, 255)}} : TRUE

RECURSIVE MagDivMod(_, _)
\* <<a div b, a mod b>> for b # 0
MagDivMod(a, b) ==
    IF Len(a) = 0 THEN <<NoBytes, NoBytes>>
    ELSE CHOOSE s \in {DivStep(p, a[Len(a)], b) :
                       p \in {MagDivMod(SubSeq(a, 1, Len(a) - 1), b)}} : TRUE

Big(neg, mag) == [neg |-> neg /\ Len(mag) > 0, mag |-> mag]

\* z.Add(x, y)
BigAdd(x, y) ==
    IF x.neg = y.neg THEN Big(x.neg, MagAdd(x.mag, y.mag))
    ELSE IF MagCmp(x.mag, y.mag) >= 0 THEN Big(x.neg, MagSub(x.mag, y.mag))
    ELSE Big(y.neg, MagSub(y.mag, x.mag))

\* z.Mul(x, y)
BigMul(x, y) == Big(x.neg # y.neg, MagMul(x.mag, y.mag))

\* z.Div(x, y), the Euclidean division, for y # 0: the remainder is never
\* negative.
BigDiv(x, y) ==
    CHOOSE z \in {IF ~x.neg \/ Len(qr[2]) = 0 THEN Big(x.neg # y.neg, qr[1])
                  ELSE Big(~y.neg, MagAdd(qr[1], <<1>>)) :
                  qr \in {MagDivMod(x.mag, y.mag)}} : TRUE

\* z.Lsh(x, n)
BigLsh(x, n) == Big(x.neg, MagMulSmall(x.mag, 2 ^ (n % 8)) \o
                           (IF Len(x.mag) = 0 THEN <<>> ELSE ZeroBytes(n \div 8)))

\* z.Rsh(x, n), an arithmetic shift: the quotient by 2^n rounded down.
BigRsh(x, n) ==
    CHOOSE z \in {IF ~x.neg \/ Len(qr[2]) = 0 THEN Big(x.neg, qr[1])
                  ELSE Big(TRUE, MagAdd(qr[1], <<1>>)) :
                  qr \in {MagDivMod(x.mag, <<2 ^ (n % 8)>> \o ZeroBytes(n \div 8))}} : TRUE

-----------------------------------------------------------------------------
(* The difficulty retargeting engine.  A blockNode is a record of the      *)
(* block index ix, a sequence; its parent is a position in ix, 0 for nil.  *)

\* standalone.BigToCompact
BigToCompact(n) ==
    IF Len(n.mag) = 0 THEN 0
    ELSE LET size == Len(n.mag)
             top == IntOfMag(SubSeq(n.mag, 1, MinOf(3, size)))
             mantissa == IF size <= 3 THEN top * (256 ^ (3 - size)) ELSE top
             carry == mantissa >= 8388608
         IN  ((IF carry THEN size + 1 ELSE size) * 16777216)
                 + (IF carry THEN mantissa \div 256 ELSE mantissa)
                 + (IF n.neg THEN 8388608 ELSE 0)

RECURSIVE WalkBack(_, _, _)
\* The node reached from n by d steps to the parent, staying at the node
\* without a parent: "if oldNode.parent != nil { oldNode = oldNode.parent }".
WalkBack(ix, n, d) ==
    IF d = 0 \/ ix[n].parent = 0 THEN n ELSE WalkBack(ix, ix[n].parent, d - 1)

RECURSIVE Ancestor(_, _, _)
\* node.Ancestor(height): nil (0) for a nil node and for a height that is
\* negative or above the node's.
Ancestor(ix, n, height) ==
    IF n = 0 THEN 0
    ELSE IF height < 0 \/ height > ix[n].height THEN 0
    ELSE IF ix[n].height = height THEN n
    ELSE Ancestor(ix, ix[n].parent, height)

\* node.RelativeAncestor(distance)
RelativeAncestor(ix, n, distance) == Ancestor(ix, n, ix[n].height - distance)

\* node.IsAncestorOf(target)
IsAncestorOf(ix, n, target) == Ancestor(ix, target, ix[n].height) = n

RECURSIVE SumOf(_, _)
\* f[1] + ... + f[n] for big.Ints
SumOf(f, n) == IF n = 0 THEN NewInt(0) ELSE BigAdd(SumOf(f, n - 1), f[n])

RECURSIVE WeightsOf(_, _, _)
\* "weights += 1 << uint64((windows-windowPeriod)*alpha)" over the windows
WeightsOf(windows, alpha, n) ==
    IF n = 0 THEN 0
    ELSE WeightsOf(windows, alpha, n - 1) + 2 ^ ((windows - (n - 1)) * alpha)

\* The weighted average without "nextDiffBig.Rsh(nextDiffBig, 32)".
WeightedNextPadded(changes, windows, alpha, oldDiffBig) ==
    LET windowChanges == [k \in 1..windows |->
                             BigLsh(changes[k], (windows - (k - 1)) * alpha)]
    IN  BigMul(BigDiv(SumOf(windowChanges, windows),
                      NewInt(WeightsOf(windows, alpha, windows))), oldDiffBig)

\* The exponentially weighted average of the windows' changes times the old
\* difficulty, in 64.32 fixed point: changes[k] is the ratio of window
\* period k - 1 before its weighting.
WeightedNext(changes, windows, alpha, oldDiffBig) ==
    LET windowChanges == [k \in 1..windows |->
                             BigLsh(changes[k], (windows - (k - 1)) * alpha)]
        weightedSum == SumOf(windowChanges, windows)
        weightsBig == NewInt(WeightsOf(windows, alpha, windows))
        weightedSumDiv == BigDiv(weightedSum, weightsBig)
    IN  BigRsh(BigMul(weightedSumDiv, oldDiffBig), 32)

\* The target of calcNextBlake256Diff at a retarget height, before it is
\* converted to the compact representation.
Blake256Target(p, ix, prevNode) ==
    LET oldDiffBig == CompactToBig(ix[prevNode].bits)
        RAFBig == NewInt(p.RetargetAdjustmentFactor)
        nextDiffBigMin == BigDiv(oldDiffBig, RAFBig)
        nextDiffBigMax == BigMul(oldDiffBig, RAFBig)
        changes == [k \in 1..p.WorkDiffWindows |->
            LET oldNode == WalkBack(ix, prevNode, k * p.WorkDiffWindowSize)
                recent == WalkBack(ix, prevNode, (k - 1) * p.WorkDiffWindowSize)
                timeDifference == IF ix[oldNode].height = 0 THEN p.TargetTimespan
                                  ELSE ix[recent].timestamp - ix[oldNode].timestamp
            IN  BigDiv(BigLsh(NewInt(timeDifference), 32), NewInt(p.TargetTimespan))]
        computed == WeightedNext(changes, p.WorkDiffWindows, p.WorkDiffAlpha, oldDiffBig)
        clamped == IF BigSign(oldDiffBig) = 0 THEN computed
                   ELSE IF BigSign(computed) = 0 THEN p.PowLimit
                   ELSE IF BigCmp(computed, nextDiffBigMax) = 1 THEN nextDiffBigMax
                   ELSE IF BigCmp(computed, nextDiffBigMin) = -1 THEN nextDiffBigMin
                   ELSE computed
    IN  [computed |-> computed,
         target |-> IF BigCmp(clamped, p.PowLimit) > 0 THEN p.PowLimit ELSE clamped]

\* calcNextBlake256Diff with the rule of the test networks that reduces the
\* difficulty to the minimum when a block is late.
calcNextBlake256DiffReduceMin(p, ix, prevNode, newBlockTime) ==
    IF (ix[prevNode].height + 1) % p.WorkDiffWindowSize # 0
    THEN [bits |-> IF newBlockTime > ix[prevNode].timestamp + (2 * p.TargetTimePerBlock)
                   THEN p.PowLimitBits ELSE ix[prevNode].bits,
          retarget |-> FALSE]
    ELSE CHOOSE r \in {[bits |-> BigToCompact(t.target), retarget |-> TRUE,
                        target |-> t.target, computed |-> t.computed] :
                       t \in {Blake256Target(p, ix, prevNode)}} : TRUE

\* b.calcNextBlake256Diff(prevNode, newBlockTime): the bits and, at a
\* retarget height, the target they encode.
calcNextBlake256Diff(p, ix, prevNode, newBlockTime) ==
    IF (ix[prevNode].height + 1) % p.WorkDiffWindowSize # 0
    THEN [bits |-> ix[prevNode].bits, retarget |-> FALSE]
    ELSE CHOOSE r \in {[bits |-> BigToCompact(t.target), retarget |-> TRUE,
                        target |-> t.target, computed |-> t.computed] :
                       t \in {Blake256Target(p, ix, prevNode)}} : TRUE

\* A returned value, or the panic of a division by zero.
Ret(v) == [ret |-> v, panic |-> FALSE]

DivideByZero == [ret |-> 0, panic |-> TRUE]

\* mergeDifficulty(oldDiff, newDiff1, newDiff2), for oldDiff # 0
mergeDifficulty(oldDiff, newDiff1, newDiff2) ==
    IF newDiff1 = 0 THEN DivideByZero
    ELSE LET oldDiffBig == NewInt(oldDiff)
             newDiff1Big == BigDiv(BigLsh(oldDiffBig, 32), NewInt(newDiff1))
             newDiff2Big == BigDiv(BigLsh(NewInt(newDiff2), 32), oldDiffBig)
         IN  IF BigSign(newDiff1Big) = 0 THEN DivideByZero
             ELSE Ret(Int64(BigRsh(BigMul(BigDiv(BigLsh(newDiff2Big, 32), newDiff1Big),
                                          oldDiffBig), 32)))

\* The limits of one retarget applied to nextDiff, for oldDiff # 0:
\*   if nextDiff == 0 { oldDiff / maxRetarget }
\*   else if (nextDiff / oldDiff) > (maxRetarget - 1) { oldDiff * maxRetarget }
\*   else if (oldDiff / nextDiff) > (maxRetarget - 1) { oldDiff / maxRetarget }
LimitRetarget(oldDiff, nextDiff, maxRetarget) ==
    IF nextDiff = 0 THEN oldDiff \div maxRetarget
    ELSE IF (nextDiff \div oldDiff) > (maxRetarget - 1) THEN oldDiff * maxRetarget
    ELSE IF (oldDiff \div nextDiff) > (maxRetarget - 1) THEN oldDiff \div maxRetarget
    ELSE nextDiff

RECURSIVE FreshStakeIn(_, _, _, _)
\* The fresh stake of the nodes WalkBack reaches in lo..hi steps.
FreshStakeIn(ix, n, lo, hi) ==
    IF lo > hi THEN 0
    ELSE ix[WalkBack(ix, n, lo)].freshStake + FreshStakeIn(ix, n, lo + 1, hi)

\* The body of calcNextRequiredStakeDifficultyV1 and of
\* estimateNextStakeDifficultyV1 after their early returns: the retarget
\* over the windows that end in topNode.
StakeRetargetV1(p, ix, topNode, oldDiff) ==
    LET maxRetarget == p.RetargetAdjustmentFactor
        size == p.StakeDiffWindowSize
        windows == p.StakeDiffWindows
        targetForTicketPool == p.TicketsPerBlock * p.TicketPoolSize
        poolChanges == [k \in 1..windows |->
            LET oldNode == WalkBack(ix, topNode, (k * size) - 1)
                skew == ((ix[oldNode].poolSize - targetForTicketPool)
                            * p.TicketPoolSizeWeight) + targetForTicketPool
            IN  BigDiv(BigLsh(NewInt(IF skew <= 0 THEN 1 ELSE skew), 32),
                       NewInt(targetForTicketPool))]
        nextDiffTicketPool ==
            Int64(WeightedNext(poolChanges, windows, p.StakeDiffAlpha, NewInt(oldDiff)))
        targetForWindow == size * p.TicketsPerBlock
        freshChanges == [k \in 1..windows |->
            LET windowFreshStake == FreshStakeIn(ix, topNode, (k - 1) * size,
                                                 (k * size) - 1)
            IN  BigDiv(BigLsh(NewInt(IF windowFreshStake <= 0 THEN 1
                                     ELSE windowFreshStake), 32),
                       NewInt(targetForWindow))]
        nextDiffFreshStake ==
            Int64(WeightedNext(freshChanges, windows, p.StakeDiffAlpha, NewInt(oldDiff)))
    IN  IF oldDiff = 0 THEN Ret(nextDiffTicketPool)
        ELSE CHOOSE r \in
            {IF m.panic THEN m
             ELSE LET nextDiff == LimitRetarget(oldDiff, m.ret, maxRetarget)
                  IN  IF nextDiff < p.MinimumStakeDiff THEN Ret(p.MinimumStakeDiff)
                      ELSE Ret(nextDiff) :
             m \in {mergeDifficulty(oldDiff,
                                    LimitRetarget(oldDiff, nextDiffTicketPool, maxRetarget),
                                    LimitRetarget(oldDiff, nextDiffFreshStake, maxRetarget))}}
            : TRUE

\* b.calcNextRequiredStakeDifficultyV1(curNode); curNode = 0 is nil.
calcNextRequiredStakeDifficultyV1(p, ix, curNode) ==
    LET stakeDiffStartHeight == p.CoinbaseMaturity + 1
    IN  IF curNode = 0 THEN Ret(p.MinimumStakeDiff)
        ELSE IF ix[curNode].height < stakeDiffStartHeight THEN Ret(p.MinimumStakeDiff)
        ELSE IF (ix[curNode].height + 1) % p.StakeDiffWindowSize # 0
        THEN Ret(ix[curNode].sbits)
        ELSE StakeRetargetV1(p, ix, curNode, ix[curNode].sbits)

RECURSIVE SubsidyAfter(_, _, _)
\* The subsidy after i reductions: "subsidy *= MulSubsidy; subsidy /= DivSubsidy".
SubsidyAfter(p, subsidy, i) ==
    IF i = 0 THEN subsidy
    ELSE SubsidyAfter(p, (subsidy * p.MulSubsidy) \div p.DivSubsidy, i - 1)

RECURSIVE SupplyOfIntervals(_, _)
\* The sum of SubsidyReductionInterval * subsidy over the first n intervals.
SupplyOfIntervals(p, n) ==
    IF n = 0 THEN 0
    ELSE SupplyOfIntervals(p, n - 1)
             + (p.SubsidyReductionInterval * SubsidyAfter(p, p.BaseSubsidy, n - 1))

\* estimateSupply(params, height)
estimateSupply(p, height) ==
    IF height <= 0 THEN 0
    ELSE LET reductions == height \div p.SubsidyReductionInterval
         IN  p.BlockOneSubsidy + SupplyOfIntervals(p, reductions)
                 + ((1 + (height % p.SubsidyReductionInterval))
                        * SubsidyAfter(p, p.BaseSubsidy, reductions))
                 - (p.BaseSubsidy * 2)

RECURSIVE sumPurchasedTickets(_, _, _)
\* b.sumPurchasedTickets(startNode, numToSum)
sumPurchasedTickets(ix, startNode, numToSum) ==
    IF startNode = 0 \/ numToSum <= 0 THEN 0
    ELSE ix[startNode].freshStake
             + sumPurchasedTickets(ix, ix[startNode].parent, numToSum - 1)

\* The quotient of calcNextStakeDiffV2 before its limits.
StakeDiffV2Quotient(p, curDiff, prevPoolSizeAll, curPoolSizeAll) ==
    LET targetPoolSizeAll == p.TicketsPerBlock * (p.TicketPoolSize + p.TicketMaturity)
        curPoolSizeAllBig == NewInt(curPoolSizeAll)
    IN  Int64(BigDiv(BigDiv(BigMul(BigMul(NewInt(curDiff), curPoolSizeAllBig),
                                   curPoolSizeAllBig),
                            NewInt(prevPoolSizeAll)),
                     NewInt(targetPoolSizeAll)))

\* The quotient of two int64, truncated toward zero, for b > 0.
Quo(a, b) == IF a >= 0 THEN a \div b ELSE -((-a) \div b)

\* calcNextStakeDiffV2 without the maximum derived from the supply.
calcNextStakeDiffV2NoMaximum(p, nextHeight, curDiff, prevPoolSizeAll, curPoolSizeAll) ==
    LET nextDiff == StakeDiffV2Quotient(p, curDiff, prevPoolSizeAll, curPoolSizeAll)
    IN  IF nextDiff < p.MinimumStakeDiff THEN p.MinimumStakeDiff ELSE nextDiff

\* calcNextStakeDiffV2(params, nextHeight, curDiff, prevPoolSizeAll, curPoolSizeAll)
calcNextStakeDiffV2(p, nextHeight, curDiff, prevPoolSizeAll, curPoolSizeAll) ==
    LET nextDiff == StakeDiffV2Quotient(p, curDiff, prevPoolSizeAll, curPoolSizeAll)
        maximumStakeDiff == Quo(estimateSupply(p, nextHeight), p.TicketPoolSize)
        limited == IF nextDiff > maximumStakeDiff THEN maximumStakeDiff ELSE nextDiff
    IN  IF limited < p.MinimumStakeDiff THEN p.MinimumStakeDiff ELSE limited

\* calcNextRequiredStakeDifficultyV2 with the start height one block early.
calcNextRequiredStakeDifficultyV2EarlyStart(p, ix, curNode) ==
    LET nextHeight == IF curNode # 0 THEN ix[curNode].height + 1 ELSE 0
        intervalSize == p.StakeDiffWindowSize
        prevRetargetNode == Ancestor(ix, curNode, nextHeight - intervalSize - 1)
        prevPoolSize == IF prevRetargetNode # 0 THEN ix[prevRetargetNode].poolSize ELSE 0
        prevPoolSizeAll == prevPoolSize
                               + sumPurchasedTickets(ix, prevRetargetNode, p.TicketMaturity)
        curPoolSizeAll == ix[curNode].poolSize
                              + sumPurchasedTickets(ix, curNode, p.TicketMaturity)
    IN  IF nextHeight < p.CoinbaseMaturity THEN Ret(p.MinimumStakeDiff)
        ELSE IF nextHeight % intervalSize # 0 THEN Ret(ix[curNode].sbits)
        ELSE IF prevPoolSizeAll = 0 THEN Ret(ix[curNode].sbits)
        ELSE Ret(calcNextStakeDiffV2(p, nextHeight, ix[curNode].sbits,
                                     prevPoolSizeAll, curPoolSizeAll))

\* b.calcNextRequiredStakeDifficultyV2(curNode); curNode = 0 is nil.
calcNextRequiredStakeDifficultyV2(p, ix, curNode) ==
    LET nextHeight == IF curNode # 0 THEN ix[curNode].height + 1 ELSE 0
        stakeDiffStartHeight == p.CoinbaseMaturity + 1
        intervalSize == p.StakeDiffWindowSize
        prevRetargetNode == Ancestor(ix, curNode, nextHeight - intervalSize - 1)
        prevPoolSize == IF prevRetargetNode # 0 THEN ix[prevRetargetNode].poolSize ELSE 0
        prevPoolSizeAll == prevPoolSize
                               + sumPurchasedTickets(ix, prevRetargetNode, p.TicketMaturity)
        curPoolSizeAll == ix[curNode].poolSize
                              + sumPurchasedTickets(ix, curNode, p.TicketMaturity)
    IN  IF nextHeight < stakeDiffStartHeight THEN Ret(p.MinimumStakeDiff)
        ELSE IF nextHeight % intervalSize # 0 THEN Ret(ix[curNode].sbits)
        ELSE IF prevPoolSizeAll = 0 THEN Ret(ix[curNode].sbits)
        ELSE Ret(calcNextStakeDiffV2(p, nextHeight, ix[curNode].sbits,
                                     prevPoolSizeAll, curPoolSizeAll))

\* An estimate, or the error returned in its place.
Estimate(r) == [ret |-> r.ret, panic |-> r.panic, err |-> FALSE]

TooManyTickets == [ret |-> 0, panic |-> FALSE, err |-> TRUE]

\* The bogus nodes estimateNextStakeDifficultyV1 puts on top of curNode, for
\* the heights up to nextAdjHeight - 1, with ticketsInWindow tickets spread
\* over them from the first on.
FakeNodes(p, ix, curNode, nextAdjHeight, ticketsInWindow) ==
    [j \in 1..(nextAdjHeight - ix[curNode].height - 1) |->
        LET before == (j - 1) * p.MaxFreshStakePerBlock
            ticketsToInsert == IF ticketsInWindow > before
                               THEN ticketsInWindow - before ELSE 0
        IN  [height |-> ix[curNode].height + j, timestamp |-> 0, bits |-> 0,
             sbits |-> 0, poolSize |-> ix[curNode].poolSize,
             freshStake |-> MinOf(p.MaxFreshStakePerBlock, ticketsToInsert),
             parent |-> IF j = 1 THEN curNode ELSE Len(ix) + j - 1,
             blake3Active |-> FALSE]] \o <<>>

\* estimateNextStakeDifficultyV1 that retargets from the minimum ticket price
\* instead of curNode.sbits.
estimateNextStakeDifficultyV1FromMinimum(p, ix, curNode, ticketsInWindow, useMaxTickets) ==
    LET stakeDiffStartHeight == p.CoinbaseMaturity + 1
        height == ix[curNode].height
        oldDiff == p.MinimumStakeDiff
        nextAdjHeight == ((height \div p.StakeDiffWindowSize) + 1) * p.StakeDiffWindowSize
        maxTickets == (nextAdjHeight - height) * p.MaxFreshStakePerBlock
        tickets == IF useMaxTickets THEN maxTickets ELSE ticketsInWindow
        fakes == FakeNodes(p, ix, curNode, nextAdjHeight, tickets)
    IN  IF curNode = 0 THEN Estimate(Ret(p.MinimumStakeDiff))
        ELSE IF height < stakeDiffStartHeight THEN Estimate(Ret(p.MinimumStakeDiff))
        ELSE IF (height + 1) % p.StakeDiffWindowSize # 0
        THEN IF tickets > maxTickets THEN TooManyTickets
             ELSE Estimate(StakeRetargetV1(p, ix \o fakes, Len(ix) + Len(fakes), oldDiff))
        ELSE Estimate(StakeRetargetV1(p, ix, curNode, oldDiff))

\* b.estimateNextStakeDifficultyV1(curNode, ticketsInWindow, useMaxTickets)
estimateNextStakeDifficultyV1(p, ix, curNode, ticketsInWindow, useMaxTickets) ==
    LET stakeDiffStartHeight == p.CoinbaseMaturity + 1
        height == ix[curNode].height
        oldDiff == ix[curNode].sbits
        nextAdjHeight == ((height \div p.StakeDiffWindowSize) + 1) * p.StakeDiffWindowSize
        maxTickets == (nextAdjHeight - height) * p.MaxFreshStakePerBlock
        tickets == IF useMaxTickets THEN maxTickets ELSE ticketsInWindow
        fakes == FakeNodes(p, ix, curNode, nextAdjHeight, tickets)
    IN  IF curNode = 0 THEN Estimate(Ret(p.MinimumStakeDiff))
        ELSE IF height < stakeDiffStartHeight THEN Estimate(Ret(p.MinimumStakeDiff))
        ELSE IF (height + 1) % p.StakeDiffWindowSize # 0
        THEN IF tickets > maxTickets THEN TooManyTickets
             ELSE Estimate(StakeRetargetV1(p, ix \o fakes, Len(ix) + Len(fakes), oldDiff))
        ELSE Estimate(StakeRetargetV1(p, ix, curNode, oldDiff))

\* b.estimateNextStakeDifficultyV2(curNode, newTickets, useMaxTickets), for
\* a curNode that is not nil
estimateNextStakeDifficultyV2(p, ix, curNode, newTicketsArg, useMaxTickets) ==
    LET curHeight == ix[curNode].height
        ticketMaturity == p.TicketMaturity
        intervalSize == p.StakeDiffWindowSize
        blocksUntilRetarget == intervalSize - (curHeight % intervalSize)
        nextRetargetHeight == curHeight + blocksUntilRetarget
        maxTicketsPerBlock == p.MaxFreshStakePerBlock
        maxRemainingTickets == (blocksUntilRetarget - 1) * maxTicketsPerBlock
        newTickets == IF useMaxTickets THEN maxRemainingTickets ELSE newTicketsArg
        stakeDiffStartHeight == p.CoinbaseMaturity + 1
        prevRetargetNode == Ancestor(ix, curNode, nextRetargetHeight - intervalSize - 1)
        prevPoolSize == IF prevRetargetNode # 0 THEN ix[prevRetargetNode].poolSize ELSE 0
        prevPoolSizeAll == prevPoolSize
                               + sumPurchasedTickets(ix, prevRetargetNode, ticketMaturity)
        curDiff == ix[curNode].sbits
        nextMaturityFloor == nextRetargetHeight - ticketMaturity - 1
        maxImmatureTickets == ticketMaturity * maxTicketsPerBlock
        remainingImmatureTickets ==
            (IF curHeight > nextMaturityFloor
             THEN sumPurchasedTickets(ix, curNode, curHeight - nextMaturityFloor)
             ELSE 0) + MinOf(newTickets, maxImmatureTickets)
        finalMaturingHeight == MinOf(nextMaturityFloor - 1, curHeight)
        firstMaturingHeight == curHeight - ticketMaturity
        maturingTickets ==
            sumPurchasedTickets(ix, Ancestor(ix, curNode, finalMaturingHeight),
                                finalMaturingHeight - firstMaturingHeight + 1)
            + (IF curHeight < nextMaturityFloor
               THEN MinOf(maxTicketsPerBlock * (nextMaturityFloor - curHeight - 1),
                          newTickets)
               ELSE 0)
        votingBlocks == IF curHeight < p.StakeValidationHeight
                        THEN nextRetargetHeight - p.StakeValidationHeight
                        ELSE blocksUntilRetarget - 1
        pendingVotes == IF nextRetargetHeight > p.StakeValidationHeight
                        THEN votingBlocks * p.TicketsPerBlock ELSE 0
        estimatedPoolSize == ix[curNode].poolSize + maturingTickets - pendingVotes
        estimatedPoolSizeAll == estimatedPoolSize + remainingImmatureTickets
    IN  IF newTickets > maxRemainingTickets THEN TooManyTickets
        ELSE IF nextRetargetHeight < stakeDiffStartHeight
        THEN Estimate(Ret(p.MinimumStakeDiff))
        ELSE IF prevPoolSizeAll = 0 THEN Estimate(Ret(curDiff))
        ELSE Estimate(Ret(calcNextStakeDiffV2(p, nextRetargetHeight, curDiff,
                                              prevPoolSizeAll, estimatedPoolSizeAll)))

\* What b.deploymentData and b.deploymentState answer for the stake
\* difficulty agenda: no deployment, or its threshold state.
DeploymentStates == {"none", "active", "started"}

\* b.estimateNextStakeDifficulty(curNode, newTickets, useMaxTickets)
estimateNextStakeDifficulty(p, ix, deployment, curNode, newTickets, useMaxTickets) ==
    IF deployment = "none" THEN Estimate(calcNextRequiredStakeDifficultyV2(p, ix, curNode))
    ELSE IF deployment = "active"
    THEN estimateNextStakeDifficultyV2(p, ix, curNode, newTickets, useMaxTickets)
    ELSE estimateNextStakeDifficultyV1(p, ix, curNode, newTickets, useMaxTickets)

\* b.calcNextRequiredStakeDifficulty(curNode)
calcNextRequiredStakeDifficulty(p, ix, deployment, curNode) ==
    IF deployment \in {"none", "active"}
    THEN calcNextRequiredStakeDifficultyV2(p, ix, curNode)
    ELSE calcNextRequiredStakeDifficultyV1(p, ix, curNode)

\* calcWantHeight(stakeValidationHeight, interval, height): the height of
\* the final block of the rule change interval before the one height is in.
calcWantHeight(stakeValidationHeight, interval, height) ==
    LET intervalOffset == stakeValidationHeight % interval
        adjustedHeight == height - intervalOffset - 1
    IN  (adjustedHeight - ((adjustedHeight + 1) % interval)) + intervalOffset

\* standalone.CalcASERTDiff: the start target scaled by two to the power of
\* the schedule deviation in half lives, within 1..powLimit, in compact form.
CalcASERTDiff(startDiffBits, powLimit, targetSecsPerBlock, timeDelta, heightDelta, halfLife) ==
    LET exponent == (timeDelta - (targetSecsPerBlock * (heightDelta + 1))) \div halfLife
        start == CompactToBig(startDiffBits)
        scaled == IF exponent >= 0 THEN BigLsh(start, MinOf(exponent, 32))
                  ELSE BigRsh(start, MinOf(-exponent, 32))
    IN  BigToCompact(IF BigSign(scaled) = 0 THEN NewInt(1)
                     ELSE IF BigCmp(scaled, powLimit) > 0 THEN powLimit
                     ELSE scaled)

\* b.calcNextBlake3DiffFromAnchor(prevNode, blake3Anchor); a nil anchor is
\* dereferenced.
calcNextBlake3DiffFromAnchor(p, ix, prevNode, blake3Anchor) ==
    IF blake3Anchor = 0 THEN [bits |-> 0, panic |-> TRUE]
    ELSE CHOOSE r \in
        {[bits |-> IF p.MinTestNetDiffBits # 0 /\ nextDiff < p.MinTestNetDiffBits
                   THEN p.MinTestNetDiffBits ELSE nextDiff,
          panic |-> FALSE] :
         nextDiff \in {CalcASERTDiff(p.WorkDiffV2Blake3StartBits, p.PowLimit,
                                     p.TargetTimePerBlock,
                                     ix[prevNode].timestamp - ix[blake3Anchor].timestamp,
                                     ix[prevNode].height - ix[blake3Anchor].height,
                                     p.WorkDiffV2HalfLifeSecs)}} : TRUE

RECURSIVE FindAnchor(_, _, _, _)
\* The loop of blake3WorkDiffAnchor from candidate on: the candidate whose
\* parent says the agenda is not active, or anchor when the loop ends
\* without one.
FindAnchor(p, ix, candidate, anchor) ==
    IF candidate = 0 THEN anchor
    ELSE IF ix[candidate].parent = 0 THEN anchor
    ELSE IF ~ix[ix[candidate].parent].blake3Active THEN candidate
    ELSE FindAnchor(p, ix, RelativeAncestor(ix, candidate, p.RuleChangeActivationInterval),
                    anchor)

\* blake3WorkDiffAnchor that returns whatever the cache holds and stores
\* the anchor it finds.
blake3WorkDiffAnchorUnchecked(p, ix, cached, prevNode) ==
    LET finalNodeHeight == calcWantHeight(p.StakeValidationHeight,
                                          p.RuleChangeActivationInterval,
                                          ix[prevNode].height + 1)
        anchor == FindAnchor(p, ix, Ancestor(ix, prevNode, finalNodeHeight), cached)
    IN  [anchor |-> IF cached # 0 THEN cached ELSE anchor,
         cache |-> IF anchor # 0 THEN anchor ELSE cached]

\* b.blake3WorkDiffAnchor(prevNode) with the cache holding cached: the
\* anchor returned and the cache afterwards.
blake3WorkDiffAnchor(p, ix, cached, prevNode) ==
    IF cached # 0 /\ IsAncestorOf(ix, cached, prevNode)
    THEN [anchor |-> cached, cache |-> cached]
    ELSE LET finalNodeHeight == calcWantHeight(p.StakeValidationHeight,
                                               p.RuleChangeActivationInterval,
                                               ix[prevNode].height + 1)
             anchor == FindAnchor(p, ix, Ancestor(ix, prevNode, finalNodeHeight), cached)
         IN  [anchor |-> anchor, cache |-> IF anchor # 0 THEN anchor ELSE cached]

\* b.calcNextBlake3Diff(prevNode) with the cache holding cached: the bits
\* and the cache afterwards.
calcNextBlake3Diff(p, ix, cached, prevNode) ==
    IF p.Blake3ForcedActive
    THEN IF ix[prevNode].height = 0
         THEN [bits |-> p.WorkDiffV2Blake3StartBits, panic |-> FALSE, cache |-> cached]
         ELSE [cache |-> cached] @@
              calcNextBlake3DiffFromAnchor(p, ix, prevNode, Ancestor(ix, prevNode, 1))
    ELSE CHOOSE r \in {[cache |-> a.cache] @@
                       calcNextBlake3DiffFromAnchor(p, ix, prevNode, a.anchor) :
                       a \in {blake3WorkDiffAnchor(p, ix, cached, prevNode)}} : TRUE

-----------------------------------------------------------------------------
(* The difficulty scenarios: chain parameters scaled down from the main    *)
(* network's, and block indexes with a main chain and a side branch.       *)

\* The height of the main chain's tip.
MaxHeight == 7

\* The height of the main chain's block the side branch forks from.
ForkHeight == 1

\* The heights from which the blake3 agenda is active on the main chain and
\* on the side branch.
MainActivation == 4

SideActivation == 6

\* The most calls of one scenario.
MaxDiffCalls == 2

\* Chain parameters with the windows, intervals and amounts scaled down.
ScaledParams ==
    [PowLimit |-> MainPowLimit, PowLimitBits |-> 486604799,
     WorkDiffAlpha |-> 1, WorkDiffWindowSize |-> 2, WorkDiffWindows |-> 2,
     TargetTimePerBlock |-> 10, TargetTimespan |-> 20,
     RetargetAdjustmentFactor |-> 4, CoinbaseMaturity |-> 2,
     StakeDiffAlpha |-> 1, StakeDiffWindowSize |-> 2, StakeDiffWindows |-> 2,
     TicketPoolSizeWeight |-> 4, TicketsPerBlock |-> 2, TicketPoolSize |-> 4,
     TicketMaturity |-> 1, MaxFreshStakePerBlock |-> 4,
     StakeValidationHeight |-> 2, MinimumStakeDiff |-> 16,
     SubsidyReductionInterval |-> 3, BaseSubsidy |-> 100, MulSubsidy |-> 1,
     DivSubsidy |-> 2, BlockOneSubsidy |-> 500,
     RuleChangeActivationInterval |-> 2, WorkDiffV2Blake3StartBits |-> 469827583,
     WorkDiffV2HalfLifeSecs |-> 20, Blake3ForcedActive |-> FALSE,
     MinTestNetDiffBits |-> 0]

\* The same with a minimum ticket price below the retarget factor, a subsidy
\* that is reduced with every block and no ledger in block one.
SmallParams ==
    [ScaledParams EXCEPT !.MinimumStakeDiff = 2, !.SubsidyReductionInterval = 1,
                         !.BlockOneSubsidy = 0]

\* The block timestamps of a profile, in seconds after the genesis block's.
\* Every sequence obeys the median time rule; "outliers" has blocks far
\* ahead of the others with equal timestamps.
TimeProfiles == {"schedule", "fast", "slow", "outliers"}

TimestampAt(profile, height) ==
    IF profile = "schedule" THEN 10 * height
    ELSE IF profile = "fast" THEN height
    ELSE IF profile = "slow" THEN 100 * height
    ELSE IF height >= 3 /\ height % 2 = 1 THEN 1000 ELSE height

\* 0x1d00ffff, 0x1c00ffff, 0x01080000 (the target 8) and 0x1e0000ff, which
\* is not what BigToCompact gives for its target (0x1d00ff00)
BitsProfiles == {486604799, 469827583, 17301504, 503316735}

\* A block index: the main chain at the positions 1..MaxHeight + 1 and the
\* side branch after it, forking from the main chain's block at ForkHeight.
\* The agenda state of a node is the state for the block after it.
IndexOf(f) ==
    [n \in 1..((2 * MaxHeight) + 1 - ForkHeight) |->
        LET side == n > MaxHeight + 1
            height == IF side THEN n - (MaxHeight + 1) + ForkHeight ELSE n - 1
        IN  [height |-> height,
             timestamp |-> TimestampAt(f.time, height) + (IF side THEN 3 ELSE 0),
             bits |-> f.bits, sbits |-> f.sbits,
             poolSize |-> f.pool + (f.growth * height),
             freshStake |-> f.fresh,
             parent |-> IF side /\ height = ForkHeight + 1 THEN ForkHeight + 1
                        ELSE n - 1,
             blake3Active |-> height + 1 >=
                                 (IF side THEN SideActivation ELSE MainActivation)]]
    \o <<>>

WorkProfiles ==
    [time : TimeProfiles, bits : BitsProfiles, sbits : {16}, pool : {8},
     growth : {0}, fresh : {2}]

\* Chains with an empty or a large pool that does not change, without or
\* with the most fresh stake, and chains with a pool that grows.
StakeProfiles ==
    [time : {"schedule"}, bits : {486604799}, sbits : {2, 16, 40},
     pool : {0, 40}, growth : {0}, fresh : {0, 4}]
    \cup [time : {"schedule"}, bits : {486604799}, sbits : {2, 16, 40},
          pool : {8}, growth : {2}, fresh : {2}]

\* The nodes of ix; 0 is the nil node.
Nodes(ix) == DOMAIN ix

\* The anchors the cache can hold: those found from an empty cache.
CachedAnchors(p, ix) ==
    {0} \cup {blake3WorkDiffAnchor(p, ix, 0, n).cache :
              n \in {m \in Nodes(ix) : ix[m].blake3Active}}

\* The chain state before any call: parameters, an index and what an
\* earlier call left in the anchor cache.
WorkDiffInit ==
    /\ chainParams \in {ScaledParams, [ScaledParams EXCEPT !.Blake3ForcedActive = TRUE]}
    /\ \E f \in WorkProfiles : blockIndex = IndexOf(f)
    /\ cachedBlake3WorkDiffAnchor \in
           (IF chainParams.Blake3ForcedActive THEN {0}
            ELSE CachedAnchors(chainParams, blockIndex))
    /\ dcalls = <<>>
    /\ CodecIdle
    /\ HashIdle
    /\ WorkIdle
    /\ DagIdle
    /\ LockIdle

\* calcNextBlake256Diff is called for the block after prevNode.
CallCalcNextBlake256Diff ==
    /\ dcalls = <<>>
    /\ \E prevNode \in Nodes(blockIndex), newBlockTime \in {0, 2000} :
          dcalls' = <<[op |-> "calcNextBlake256Diff", node |-> prevNode,
                       newBlockTime |-> newBlockTime,
                       out |-> calcNextBlake256Diff(chainParams, blockIndex, prevNode,
                                                    newBlockTime)]>>
    /\ UNCHANGED <<chainParams, blockIndex, cachedBlake3WorkDiffAnchor>>
    /\ UNCHANGED <<codecVars, hashVars, workVars, dagVars, lockVars>>

\* calcNextBlake3Diff is called for the block after prevNode, for which the
\* agenda is active.
CallCalcNextBlake3Diff ==
    /\ Len(dcalls) < MaxDiffCalls
    /\ \A i \in DOMAIN dcalls : dcalls[i].op = "calcNextBlake3Diff"
    /\ \E prevNode \in {n \in Nodes(blockIndex) : blockIndex[n].blake3Active} :
          \E r \in {calcNextBlake3Diff(chainParams, blockIndex,
                                       cachedBlake3WorkDiffAnchor, prevNode)} :
             /\ dcalls' = Append(dcalls, [op |-> "calcNextBlake3Diff", node |-> prevNode,
                                          cached |-> cachedBlake3WorkDiffAnchor,
                                          out |-> [bits |-> r.bits, panic |-> r.panic]])
             /\ cachedBlake3WorkDiffAnchor' = r.cache
    /\ UNCHANGED <<chainParams, blockIndex>>
    /\ UNCHANGED <<codecVars, hashVars, workVars, dagVars, lockVars>>

WorkDiffNext == CallCalcNextBlake256Diff \/ CallCalcNextBlake3Diff

SpecWorkDiff == WorkDiffInit /\ [][WorkDiffNext]_vars

-----------------------------------------------------------------------------
(* Claims about the work difficulty.                                       *)

\* The calls of calcNextBlake256Diff made.
Blake256Calls == {i \in DOMAIN dcalls : dcalls[i].op = "calcNextBlake256Diff"}

\* The height after the node of call i is a retarget height.
WorkRetargetAt(i) ==
    (blockIndex[dcalls[i].node].height + 1) % chainParams.WorkDiffWindowSize = 0

\* The target T lies within the retarget limits around prevTarget and under
\* the proof-of-work limit.
WithinWorkLimits(prevTarget, T) ==
    /\ BigCmp(BigDiv(prevTarget, NewInt(chainParams.RetargetAdjustmentFactor)), T) <= 0
    /\ BigCmp(T, BigMul(prevTarget, NewInt(chainParams.RetargetAdjustmentFactor))) <= 0
    /\ BigCmp(T, chainParams.PowLimit) <= 0

\* C12: at every retarget height the target calcNextBlake256Diff computes,
\* before compact encoding, is at least prevTarget / RetargetAdjustmentFactor,
\* at most prevTarget * RetargetAdjustmentFactor and at most PowLimit.
C12_WorkDiffClamp ==
    \A i \in Blake256Calls :
        WorkRetargetAt(i) =>
            WithinWorkLimits(CompactToBig(blockIndex[dcalls[i].node].bits),
                             dcalls[i].out.target)

\* The limits hold whenever the weighted average times the old target is
\* not zero.
WorkDiffClampUnlessZero ==
    \A i \in Blake256Calls :
        (WorkRetargetAt(i) /\ BigSign(dcalls[i].out.computed) # 0) =>
            WithinWorkLimits(CompactToBig(blockIndex[dcalls[i].node].bits),
                             dcalls[i].out.target)

\* A computed target of zero is replaced by the proof-of-work limit.
WorkDiffZeroIsPowLimit ==
    \A i \in Blake256Calls :
        (WorkRetargetAt(i) /\ BigSign(dcalls[i].out.computed) = 0) =>
            dcalls[i].out.target = chainParams.PowLimit

\* C13: at a height that is no retarget height calcNextBlake256Diff returns
\* prevNode.bits unchanged, whatever newBlockTime and the ancestors'
\* timestamps are.
C13_NonRetargetKeepsBits ==
    \A i \in Blake256Calls :
        ~WorkRetargetAt(i) => dcalls[i].out.bits = blockIndex[dcalls[i].node].bits

\* The call was made between retargets for a late block on a chain that is
\* far behind its schedule and whose bits are not the minimum difficulty.
C13_Witness ==
    \E i \in Blake256Calls :
        /\ ~WorkRetargetAt(i)
        /\ blockIndex[dcalls[i].node].height = 4
        /\ blockIndex[dcalls[i].node].timestamp = 400
        /\ dcalls[i].newBlockTime = 2000
        /\ dcalls[i].out.bits = 469827583

\* C19: two consecutive calls of calcNextBlake3Diff with the same prevNode
\* return the same bits, whatever the anchor cache held before the first.
C19_AnchorCacheStable ==
    \A i \in DOMAIN dcalls :
        (i > 1 /\ dcalls[i].op = "calcNextBlake3Diff"
               /\ dcalls[i - 1].op = "calcNextBlake3Diff"
               /\ dcalls[i].node = dcalls[i - 1].node) =>
            dcalls[i].out = dcalls[i - 1].out

\* Two calls were made for a node of the side branch while the cache held the
\* main chain's anchor; the first call replaced it with the side branch's.
C19_Witness ==
    /\ Len(dcalls) >= 2
    /\ dcalls[1].op = "calcNextBlake3Diff"
    /\ dcalls[2].op = "calcNextBlake3Diff"
    /\ dcalls[1].node = dcalls[2].node
    /\ ~chainParams.Blake3ForcedActive
    /\ dcalls[1].cached # 0
    /\ ~IsAncestorOf(blockIndex, dcalls[1].cached, dcalls[1].node)
    /\ dcalls[2].cached # dcalls[1].cached
    /\ IsAncestorOf(blockIndex, dcalls[2].cached, dcalls[2].node)
    /\ ~dcalls[2].out.panic

-----------------------------------------------------------------------------
(* The stake difficulty: one call, or two of estimateSupply, on a chain.   *)

\* The ticket counts an estimate is asked for.
TicketCounts == {0, 5, 9}

\* The arguments calcNextStakeDiffV2 is called with.
StakeDiffV2Heights == {0, 2, 8}

StakeDiffV2Diffs == {2, 16, 40}

StakeDiffV2PrevPools == {1, 20}

StakeDiffV2CurPools == {0, 8, 40}

StakeDiffInit ==
    /\ chainParams \in {ScaledParams, SmallParams}
    /\ \E f \in StakeProfiles : blockIndex = IndexOf(f)
    /\ cachedBlake3WorkDiffAnchor = 0
    /\ dcalls = <<>>
    /\ CodecIdle
    /\ HashIdle
    /\ WorkIdle
    /\ DagIdle
    /\ LockIdle

\* calcNextRequiredStakeDifficulty is called for the block after curNode,
\* with the agenda of the stake difficulty algorithm in some state.
CallCalcNextRequiredStakeDifficulty ==
    /\ dcalls = <<>>
    /\ \E curNode \in {0} \cup Nodes(blockIndex), deployment \in DeploymentStates :
          dcalls' = <<[op |-> "calcNextRequiredStakeDifficulty", node |-> curNode,
                       deployment |-> deployment,
                       out |-> calcNextRequiredStakeDifficulty(chainParams, blockIndex,
                                                               deployment, curNode)]>>
    /\ UNCHANGED <<chainParams, blockIndex, cachedBlake3WorkDiffAnchor>>
    /\ UNCHANGED <<codecVars, hashVars, workVars, dagVars, lockVars>>

\* calcNextStakeDiffV2 is called.
CallCalcNextStakeDiffV2 ==
    /\ dcalls = <<>>
    /\ \E nextHeight \in StakeDiffV2Heights, curDiff \in StakeDiffV2Diffs,
          prevPoolSizeAll \in StakeDiffV2PrevPools,
          curPoolSizeAll \in StakeDiffV2CurPools :
          dcalls' = <<[op |-> "calcNextStakeDiffV2", nextHeight |-> nextHeight,
                       curDiff |-> curDiff, prevPoolSizeAll |-> prevPoolSizeAll,
                       curPoolSizeAll |-> curPoolSizeAll,
                       out |-> calcNextStakeDiffV2(chainParams, nextHeight, curDiff,
                                                   prevPoolSizeAll, curPoolSizeAll)]>>
    /\ UNCHANGED <<chainParams, blockIndex, cachedBlake3WorkDiffAnchor>>
    /\ UNCHANGED <<codecVars, hashVars, workVars, dagVars, lockVars>>

\* estimateSupply is called, once or twice.
CallEstimateSupply ==
    /\ Len(dcalls) < MaxDiffCalls
    /\ \A i \in DOMAIN dcalls : dcalls[i].op = "estimateSupply"
    /\ \E height \in 0..(MaxHeight + 1) :
          dcalls' = Append(dcalls, [op |-> "estimateSupply", height |-> height,
                                    out |-> estimateSupply(chainParams, height)])
    /\ UNCHANGED <<chainParams, blockIndex, cachedBlake3WorkDiffAnchor>>
    /\ UNCHANGED <<codecVars, hashVars, workVars, dagVars, lockVars>>

\* EstimateNextStakeDifficulty is called for a block of the index.
CallEstimateNextStakeDifficulty ==
    /\ dcalls = <<>>
    /\ \E node \in Nodes(blockIndex), deployment \in DeploymentStates,
          newTickets \in TicketCounts, useMaxTickets \in BOOLEAN :
          /\ useMaxTickets => newTickets = 0
          /\ dcalls' = <<[op |-> "EstimateNextStakeDifficulty", node |-> node,
                          deployment |-> deployment, newTickets |-> newTickets,
                          useMaxTickets |-> useMaxTickets,
                          out |-> estimateNextStakeDifficulty(chainParams, blockIndex,
                                                              deployment, node,
                                                              newTickets, useMaxTickets)]>>
    /\ UNCHANGED <<chainParams, blockIndex, cachedBlake3WorkDiffAnchor>>
    /\ UNCHANGED <<codecVars, hashVars, workVars, dagVars, lockVars>>

StakeDiffNext ==
    \/ CallCalcNextRequiredStakeDifficulty
    \/ CallCalcNextStakeDiffV2
    \/ CallEstimateSupply
    \/ CallEstimateNextStakeDifficulty

SpecStakeDiff == StakeDiffInit /\ [][StakeDiffNext]_vars

-----------------------------------------------------------------------------
(* Claims about the stake difficulty.                                      *)

\* The calls made of the operation op.
CallsOf(op) == {i \in DOMAIN dcalls : dcalls[i].op = op}

\* The height of the block after the node of call i; 0 after the nil node.
NextHeightAt(i) ==
    IF dcalls[i].node = 0 THEN 0 ELSE blockIndex[dcalls[i].node].height + 1

\* The next height of call i is at or above the activation height and no
\* retarget height.
StakeBetweenRetargets(i) ==
    /\ dcalls[i].node # 0
    /\ NextHeightAt(i) >= chainParams.CoinbaseMaturity + 1
    /\ NextHeightAt(i) % chainParams.StakeDiffWindowSize # 0

StakeNonRetargetKeepsSBitsAfterStart ==
    \A i \in CallsOf("calcNextRequiredStakeDifficulty") :
        (/\ StakeBetweenRetargets(i)
         /\ \/ dcalls[i].deployment # "started"
            \/ NextHeightAt(i) > chainParams.CoinbaseMaturity + 1) =>
            dcalls[i].out = Ret(blockIndex[dcalls[i].node].sbits)

\* The legacy algorithm returns the minimum for the block at the height
\* CoinbaseMaturity + 1.
StakeV1MinimumAtStart ==
    \A i \in CallsOf("calcNextRequiredStakeDifficulty") :
        (/\ dcalls[i].deployment = "started"
         /\ NextHeightAt(i) = chainParams.CoinbaseMaturity + 1) =>
            dcalls[i].out = Ret(chainParams.MinimumStakeDiff)

\* C15: for a nil curNode and for every curNode whose next height is below
\* CoinbaseMaturity + 1, both stake difficulty algorithms return
\* MinimumStakeDiff, whatever sbits, pool sizes and fresh stake are.
C15_StakeMinimumBeforeStart ==
    \A i \in CallsOf("calcNextRequiredStakeDifficulty") :
        NextHeightAt(i) < chainParams.CoinbaseMaturity + 1 =>
            dcalls[i].out = Ret(chainParams.MinimumStakeDiff)

\* The closed-form algorithm was asked for the block at the height
\* CoinbaseMaturity, a retarget height, after a node with other sbits, a
\* pool and fresh stake.
C15_Witness ==
    \E i \in CallsOf("calcNextRequiredStakeDifficulty") :
        /\ dcalls[i].deployment = "active"
        /\ dcalls[i].node # 0
        /\ NextHeightAt(i) = chainParams.CoinbaseMaturity
        /\ blockIndex[dcalls[i].node].sbits = 40
        /\ blockIndex[dcalls[i].node].poolSize > 0
        /\ blockIndex[dcalls[i].node].freshStake > 0
        /\ dcalls[i].out.ret = 16

\* The legacy algorithm was asked for the block after the nil node and for
\* one before the start height.
StakeV1BeforeStartCalled ==
    \E i \in CallsOf("calcNextRequiredStakeDifficulty") :
        /\ dcalls[i].deployment = "started"
        /\ dcalls[i].node # 0
        /\ blockIndex[dcalls[i].node].sbits = 40
        /\ NextHeightAt(i) < chainParams.CoinbaseMaturity + 1

\* Call i is a retarget of the legacy algorithm at or above the start, with
\* oldDiff >= MinimumStakeDiff > 0.
StakeV1RetargetAt(i) ==
    /\ dcalls[i].deployment = "started"
    /\ dcalls[i].node # 0
    /\ blockIndex[dcalls[i].node].height >= chainParams.CoinbaseMaturity + 1
    /\ NextHeightAt(i) % chainParams.StakeDiffWindowSize = 0
    /\ blockIndex[dcalls[i].node].sbits >= chainParams.MinimumStakeDiff
    /\ chainParams.MinimumStakeDiff > 0

\* r is at least the minimum and, unless it is the minimum, within the
\* retarget limits around oldDiff.
WithinStakeLimits(oldDiff, r) ==
    /\ r >= chainParams.MinimumStakeDiff
    /\ \/ r = chainParams.MinimumStakeDiff
       \/ /\ oldDiff \div chainParams.RetargetAdjustmentFactor <= r
          /\ r <= oldDiff * chainParams.RetargetAdjustmentFactor

\* C16: at every retarget height at or above activation with
\* oldDiff = curNode.sbits >= MinimumStakeDiff > 0,
\* calcNextRequiredStakeDifficultyV1 completes without a division by zero
\* and returns r >= MinimumStakeDiff that, unless raised to the minimum, has
\* oldDiff / RetargetAdjustmentFactor <= r <= oldDiff * RetargetAdjustmentFactor.
C16_StakeV1Clamp ==
    \A i \in CallsOf("calcNextRequiredStakeDifficulty") :
        StakeV1RetargetAt(i) =>
            /\ ~dcalls[i].out.panic
            /\ WithinStakeLimits(blockIndex[dcalls[i].node].sbits, dcalls[i].out.ret)

\* The same for every oldDiff that is at least RetargetAdjustmentFactor.
StakeV1ClampFromFactorOn ==
    \A i \in CallsOf("calcNextRequiredStakeDifficulty") :
        (/\ StakeV1RetargetAt(i)
         /\ blockIndex[dcalls[i].node].sbits >= chainParams.RetargetAdjustmentFactor) =>
            /\ ~dcalls[i].out.panic
            /\ WithinStakeLimits(blockIndex[dcalls[i].node].sbits, dcalls[i].out.ret)

\* A retarget of the legacy algorithm that stays away from the minimum.
StakeV1RetargetAboveMinimum ==
    \E i \in CallsOf("calcNextRequiredStakeDifficulty") :
        /\ StakeV1RetargetAt(i)
        /\ ~dcalls[i].out.panic
        /\ dcalls[i].out.ret > chainParams.MinimumStakeDiff
        /\ dcalls[i].out.ret # blockIndex[dcalls[i].node].sbits

\* floor(floor(curDiff * curPoolSizeAll^2 / prevPoolSizeAll) / targetPoolSizeAll)
StakeDiffV2Formula(c) ==
    ((c.curDiff * c.curPoolSizeAll * c.curPoolSizeAll) \div c.prevPoolSizeAll)
        \div (chainParams.TicketsPerBlock
                  * (chainParams.TicketPoolSize + chainParams.TicketMaturity))

\* estimateSupply(nextHeight) / TicketPoolSize
StakeDiffV2Maximum(c) ==
    Quo(estimateSupply(chainParams, c.nextHeight), chainParams.TicketPoolSize)

\* C17: calcNextStakeDiffV2 returns r >= MinimumStakeDiff, r is at most
\* estimateSupply(nextHeight) / TicketPoolSize whenever that is at least
\* MinimumStakeDiff, and inside the bounds r is
\* floor(floor(curDiff * curPoolSizeAll^2 / prevPoolSizeAll) / targetPoolSizeAll).
C17_StakeDiffV2Bounds ==
    \A i \in CallsOf("calcNextStakeDiffV2") :
        /\ dcalls[i].prevPoolSizeAll > 0
        /\ dcalls[i].out >= chainParams.MinimumStakeDiff
        /\ StakeDiffV2Maximum(dcalls[i]) >= chainParams.MinimumStakeDiff =>
               dcalls[i].out <= StakeDiffV2Maximum(dcalls[i])
        /\ (/\ StakeDiffV2Formula(dcalls[i]) >= chainParams.MinimumStakeDiff
            /\ StakeDiffV2Formula(dcalls[i]) <= StakeDiffV2Maximum(dcalls[i])) =>
               dcalls[i].out = StakeDiffV2Formula(dcalls[i])

\* A call whose quotient lies strictly inside the bounds and one whose
\* quotient is above the maximum.
C17_Witness ==
    \E i \in CallsOf("calcNextStakeDiffV2") :
        /\ StakeDiffV2Formula(dcalls[i]) > chainParams.MinimumStakeDiff
        /\ StakeDiffV2Formula(dcalls[i]) < StakeDiffV2Maximum(dcalls[i])
        /\ dcalls[i].out # dcalls[i].curDiff
        /\ dcalls[i].out = 102

\* A call whose quotient is above a maximum that is above the minimum.
StakeDiffV2MaximumApplied ==
    \E i \in CallsOf("calcNextStakeDiffV2") :
        /\ StakeDiffV2Formula(dcalls[i]) > StakeDiffV2Maximum(dcalls[i])
        /\ StakeDiffV2Maximum(dcalls[i]) > chainParams.MinimumStakeDiff
        /\ dcalls[i].out = StakeDiffV2Maximum(dcalls[i])

\* C18: for every height h >= 0 and every parameter set with non-negative
\* subsidies and MulSubsidy <= DivSubsidy,
\* estimateSupply(h + 1) >= estimateSupply(h), from height 0 to 1 too.
C18_EstimateSupplyMonotone ==
    \A i, j \in CallsOf("estimateSupply") :
        dcalls[j].height = dcalls[i].height + 1 => dcalls[j].out >= dcalls[i].out

\* The estimate does not decrease when the subsidy reduction interval is
\* longer than one block.
EstimateSupplyMonotoneOverLongIntervals ==
    \A i, j \in CallsOf("estimateSupply") :
        (/\ dcalls[j].height = dcalls[i].height + 1
         /\ chainParams.SubsidyReductionInterval > 1) =>
            dcalls[j].out >= dcalls[i].out

\* The estimates of the last block of a subsidy reduction interval and of
\* the first of the next were compared.
EstimateSupplyAcrossReduction ==
    \E i, j \in CallsOf("estimateSupply") :
        /\ dcalls[j].height = dcalls[i].height + 1
        /\ chainParams.SubsidyReductionInterval > 1
        /\ dcalls[j].height % chainParams.SubsidyReductionInterval = 0
        /\ dcalls[j].out > dcalls[i].out

\* The tickets that can still be purchased in the blocks of the interval
\* after the node of call i.
RemainingCapacity(i) ==
    (chainParams.StakeDiffWindowSize - 1
         - (blockIndex[dcalls[i].node].height % chainParams.StakeDiffWindowSize))
        * chainParams.MaxFreshStakePerBlock

\* C20: for every tip and whichever stake algorithm is selected,
\* EstimateNextStakeDifficulty with useMaxTickets false and more tickets
\* than can still be purchased in the rest of the interval returns an error
\* and no estimate.
C20_OverCapacityRejected ==
    \A i \in CallsOf("EstimateNextStakeDifficulty") :
        (~dcalls[i].useMaxTickets /\ dcalls[i].newTickets > RemainingCapacity(i)) =>
            dcalls[i].out = TooManyTickets

\* With the agenda active the closed-form estimate rejects every count above
\* the capacity.
EstimateV2RejectsOverCapacity ==
    \A i \in CallsOf("EstimateNextStakeDifficulty") :
        (/\ dcalls[i].deployment = "active"
         /\ ~dcalls[i].useMaxTickets
         /\ dcalls[i].newTickets > RemainingCapacity(i)) =>
            dcalls[i].out = TooManyTickets

\* The legacy estimate rejects every count above its own maximum, which
\* counts one block more, between retargets from the start height on.
EstimateV1RejectsAboveItsMaximum ==
    \A i \in CallsOf("EstimateNextStakeDifficulty") :
        (/\ dcalls[i].deployment = "started"
         /\ ~dcalls[i].useMaxTickets
         /\ blockIndex[dcalls[i].node].height >= chainParams.CoinbaseMaturity + 1
         /\ (blockIndex[dcalls[i].node].height + 1) % chainParams.StakeDiffWindowSize # 0
         /\ dcalls[i].newTickets >
                RemainingCapacity(i) + chainParams.MaxFreshStakePerBlock) =>
            dcalls[i].out = TooManyTickets

-----------------------------------------------------------------------------
(* Further claims about the hash engines.                                  *)

\* On header bytes shorter than the minimum Hash returns an error and no
\* hash, and Verify returns (false, error) without a panic.
ShortHeaderIsAnError ==
    \A c \in VerifyCalls :
        Len(tab.inputs[c.inp]) < MinHeaderLen =>
            /\ c.computed = [hash |-> NoBytes, mix |-> NoBytes, err |-> TRUE]
            /\ c.out = [ok |-> FALSE, err |-> TRUE, panic |-> FALSE]

\* C21: Hash on header bytes shorter than the 172 bytes needed to extract
\* height and timestamp returns an error and no hash without a panic, Verify
\* on such input returns (false, error), and on inputs of at least that
\* length neither Hash nor Verify panics on an out-of-range slice.
C21_ShortHeaderIsAnErrorNoPanic ==
    /\ ShortHeaderIsAnError
    /\ \A c \in VerifyCalls :
           Len(tab.inputs[c.inp]) >= MinHeaderLen => ~c.out.panic

\* Verify was called on the short input.
ShortHeaderVerified ==
    \E c \in VerifyCalls : Len(tab.inputs[c.inp]) = MinHeaderLen - 1

-----------------------------------------------------------------------------
(* Further claims about the proof check of a submission.                   *)

\* The nonce and the mix digest the proof check takes are the last forty
\* bytes of the serialized work data.
ProofReadsTheEndOfTheWorkData ==
    (rpc.kind = "submit" /\ Called(rpc.reply, "Hash")) =>
        LET data == SerializeWork(rpc.srv.variant, rpc.header.hdr).bytes
        IN  rpc.proof.nonce \o rpc.proof.mixDigest
                = SubSeq(data, Len(data) - WorkPadLen + 1, Len(data))

\* C24: the proof check of a submission uses the submitted solution: for
\* every decoded header h the nonce and the mix digest CheckKawPoWProof feeds
\* to the hash engine and compares against are h.Nonce and h.MixDigest.
C24_ProofUsesSubmittedSolution ==
    (rpc.kind = "submit" /\ Called(rpc.reply, "Hash")) =>
        /\ rpc.proof.nonce = LEBytes(rpc.header.hdr.Nonce, 8)
        /\ rpc.proof.mixDigest = rpc.header.hdr.MixDigest

\* The proof of a solved payload was checked.
SolvedPayloadChecked ==
    /\ rpc.kind = "submit"
    /\ Called(rpc.reply, "Hash")
    /\ rpc.header.hdr.Nonce = 7
    /\ rpc.header.hdr.MixDigest = Pattern(5, 32)

-----------------------------------------------------------------------------
(* Further claims about the proof-of-work hash.                            *)

PowCalls == {c \in Range(calls) : c.op = "pow"}

\* The two headers are equal in every field but the mix digest.
DifferOnlyInMixDigest(a, b) ==
    /\ a.MixDigest # b.MixDigest
    /\ [a EXCEPT !.MixDigest = b.MixDigest] = b

\* The bytes of the serialized header PowHashV2 hands to Hash.
PowHashInput(h) == SubSeq(Bytes(h).bytes, 1, Len(Bytes(h).bytes) - PowHashStrip)

\* The bytes PowHashV2 strips are the last 32 of the 216, which lie behind
\* the encoded MixDigest.
PowHashV2StripsTheTail ==
    \A c \in PowCalls :
        LET h == PowHeaders[c.inp]
        IN  /\ Len(PowHashInput(h)) = MaxBlockHeaderPayload - PowHashStrip
            /\ Len(PowHashInput(h)) >= MixDigestOffset + 32

\* C25: two headers that differ only in MixDigest have the same PowHashV2,
\* and the hashed prefix of the serialized header contains no byte of the
\* encoded MixDigest.
C25_PowHashExcludesMixDigest ==
    /\ \A a, b \in PowCalls :
           (DifferOnlyInMixDigest(PowHeaders[a.inp], PowHeaders[b.inp])
               /\ a.at \div CacheGenPeriod = b.at \div CacheGenPeriod) => a.out = b.out
    /\ \A c \in PowCalls :
           \A i \in 1..Len(PowHashInput(PowHeaders[c.inp])) :
               ~(i > MixDigestOffset /\ i <= MixDigestOffset + 32)

\* PowHashV2 was called on two headers that differ only in MixDigest, in
\* one cache generation.
MixDigestPairHashed ==
    \E a, b \in PowCalls :
        /\ DifferOnlyInMixDigest(PowHeaders[a.inp], PowHeaders[b.inp])
        /\ a.at \div CacheGenPeriod = b.at \div CacheGenPeriod
        /\ ~a.out.panic /\ ~b.out.panic

-----------------------------------------------------------------------------
(* The datasets of the standalone engine: Hash is called on headers of a   *)
(* few heights and timestamps while the package's map of DAG caches is     *)
(* watched.                                                                *)

MaxDagCalls == 3

\* Heights in epoch 0 (twice) and in epoch 1.
DagHeights == <<0, 7499, 7500>>

\* 0x5f5e100 and the genesis block's timestamp.
DagTimestamps == <<100000000, 1640235744>>

\* Header bytes that carry the height and the timestamp where Hash reads
\* them, and zeros elsewhere.
DagHeader(height, timestamp) ==
    ZeroBytes(HashHeightOffset) \o LEBytes(height, 4)
        \o ZeroBytes(HashTimestampOffset - HashHeightOffset - 4)
        \o LEBytes(timestamp, 4) \o ZeroBytes(TestHeaderLen - MinHeaderLen)

\* getDAG as Hash calls it while the package's map holds caches: the map is
\* neither read nor written, and a new dataset is generated by the call.
getDAGWith(caches, epoch, seed) ==
    [dag |-> getDAG(epoch, seed), generated |-> TRUE, caches |-> caches]

\* The part of KawPow.Hash before the mixing loop: the seed and the dataset
\* of the header.
HashDataset(caches, headerBytes) ==
    LET f == HashFields(headerBytes)
        epoch == f.height \div KawPowEpochLength
        seedHash == CalcSeedHash(f.height, f.timestamp)
        got == getDAGWith(caches, epoch, seedHash)
    IN  [height |-> f.height, timestamp |-> f.timestamp, epoch |-> epoch,
         seed |-> seedHash, dag |-> got.dag, generated |-> got.generated,
         caches |-> got.caches]

\* What Hash does on each header of the scenario with an empty map.
DagTables ==
    [inputs |-> [h \in DOMAIN DagHeights |-> [t \in DOMAIN DagTimestamps |->
                    DagHeader(DagHeights[h], DagTimestamps[t])] \o <<>>] \o <<>>,
     dataset |-> [h \in DOMAIN DagHeights |-> [t \in DOMAIN DagTimestamps |->
                    HashDataset(<<>>, DagHeader(DagHeights[h], DagTimestamps[t]))]
                        \o <<>>] \o <<>>,
     out |-> [h \in DOMAIN DagHeights |-> [t \in DOMAIN DagTimestamps |->
                    StandaloneHash(DagHeader(DagHeights[h], DagTimestamps[t]), 12345)]
                        \o <<>>] \o <<>>]

DagInit ==
    /\ now = 0
    /\ kps = <<>>
    /\ calls = <<>>
    /\ tab = DagTables
    /\ dagCaches = <<>>
    /\ CodecIdle
    /\ WorkIdle
    /\ DiffIdle
    /\ LockIdle

\* kp.Hash(headerBytes, 12345) on the standalone engine.  The map of DAG
\* caches is empty in every reachable state, so that the tables apply.
CallHashDataset ==
    /\ Len(calls) < MaxDagCalls
    /\ dagCaches = <<>>
    /\ \E h \in DOMAIN DagHeights, t \in DOMAIN DagTimestamps :
          LET d == tab.dataset[h][t]
          IN  /\ calls' = Append(calls,
                     [op |-> "dag", height |-> d.height, timestamp |-> d.timestamp,
                      epoch |-> d.epoch, seed |-> d.seed, dag |-> d.dag,
                      generated |-> d.generated, out |-> tab.out[h][t]])
              /\ dagCaches' = d.caches
    /\ UNCHANGED <<now, kps, tab>>
    /\ UNCHANGED <<codecVars, workVars, diffVars, lockVars>>

DagNext == CallHashDataset

SpecDag == DagInit /\ [][DagNext]_vars

\* Every Hash call works on a dataset of its header's epoch, made from the
\* seed of its header's epoch and timestamp, and two calls on headers of
\* equal height and timestamp use equal seeds and datasets.
DatasetIsOfTheHeader ==
    \A i, j \in DOMAIN calls :
        /\ calls[i].epoch = calls[i].height \div KawPowEpochLength
        /\ calls[i].dag.epoch = calls[i].epoch
        /\ calls[i].dag.seed = calls[i].seed
        /\ (calls[i].height = calls[j].height /\ calls[i].timestamp = calls[j].timestamp) =>
              (calls[i].seed = calls[j].seed /\ calls[i].dag = calls[j].dag)

\* C22: over any sequence of Hash calls the dataset of an epoch is generated
\* at most once and reused by later calls, any two headers of one epoch
\* (equal floor(height/7500)) are hashed against the same seed and dataset
\* whatever their timestamps, and a header of another epoch uses that
\* epoch's dataset.
C22_OneDatasetPerEpoch ==
    \A i, j \in DOMAIN calls :
        /\ (i < j /\ calls[i].epoch = calls[j].epoch) => ~calls[j].generated
        /\ calls[i].epoch = calls[j].epoch =>
              (calls[i].seed = calls[j].seed /\ calls[i].dag = calls[j].dag)
        /\ calls[i].dag.epoch = calls[i].height \div KawPowEpochLength

\* Two headers of one epoch and one timestamp were hashed.
SameEpochHashedTwice ==
    \E i, j \in DOMAIN calls :
        /\ i < j
        /\ calls[i].epoch = calls[j].epoch
        /\ calls[i].height # calls[j].height
        /\ calls[i].timestamp = calls[j].timestamp
        /\ ~calls[i].out.err /\ ~calls[j].out.err

-----------------------------------------------------------------------------
(* The anchor search under interleaving: two goroutines run                *)
(* blake3WorkDiffAnchor step by step, each between its atomic Load and its *)
(* atomic Store of the cached anchor.                                      *)

\* The most calls of the anchor search in one scenario.
MaxAnchorCalls == 2

\* The goroutines that call the anchor search.
AnchorThreads == {1, 2}

\* A goroutine outside the function.
IdleThread == [pc |-> "idle", prevNode |-> 0, anchor |-> 0, loaded |-> 0]

\* "anchor != nil && anchor.IsAncestorOf(prevNode)" that accepts every
\* cached anchor.
AnchorHitAnyCached(ix, anchor, prevNode) == anchor # 0

\* "anchor != nil && anchor.IsAncestorOf(prevNode)"
AnchorHit(ix, anchor, prevNode) == anchor # 0 /\ IsAncestorOf(ix, anchor, prevNode)

AnchorProfiles ==
    [time : {"schedule"}, bits : {486604799}, sbits : {16}, pool : {8},
     growth : {0}, fresh : {2}]

AnchorInit ==
    /\ chainParams = ScaledParams
    /\ \E f \in AnchorProfiles : blockIndex = IndexOf(f)
    /\ cachedBlake3WorkDiffAnchor \in CachedAnchors(chainParams, blockIndex)
    /\ dcalls = <<>>
    /\ chainLock = 0
    /\ threads = [t \in AnchorThreads |-> IdleThread]
    /\ CodecIdle
    /\ HashIdle
    /\ WorkIdle
    /\ DagIdle

\* The calls of the anchor search started so far.
AnchorCallsStarted ==
    Len(dcalls) + Cardinality({t \in AnchorThreads : threads[t].pc # "idle"})

\* The record of a call of the anchor search that returned anchor.
AnchorReturn(t, anchor) ==
    [op |-> "blake3WorkDiffAnchor", thread |-> t, node |-> threads[t].prevNode,
     cached |-> threads[t].loaded, out |-> anchor]

\* A goroutine calls blake3WorkDiffAnchor(prevNode) with the agenda active
\* for the block after prevNode.
EnterAnchor(t) ==
    /\ threads[t].pc = "idle"
    /\ AnchorCallsStarted < MaxAnchorCalls
    /\ \E prevNode \in {n \in Nodes(blockIndex) : blockIndex[n].blake3Active} :
          threads' = [threads EXCEPT ![t] = [IdleThread EXCEPT !.pc = "load",
                                                               !.prevNode = prevNode]]
    /\ UNCHANGED <<chainParams, blockIndex, cachedBlake3WorkDiffAnchor, dcalls, chainLock>>
    /\ UNCHANGED <<codecVars, hashVars, workVars, dagVars>>

\* anchor := b.cachedBlake3WorkDiffAnchor.Load() and the return of a cached
\* ancestor.
LoadAnchor(t) ==
    /\ threads[t].pc = "load"
    /\ LET anchor == cachedBlake3WorkDiffAnchor
       IN  IF AnchorHit(blockIndex, anchor, threads[t].prevNode)
           THEN /\ dcalls' = Append(dcalls, [AnchorReturn(t, anchor) EXCEPT !.cached = anchor])
                /\ threads' = [threads EXCEPT ![t] = IdleThread]
           ELSE /\ threads' = [threads EXCEPT ![t].pc = "search", ![t].anchor = anchor,
                                              ![t].loaded = anchor]
                /\ UNCHANGED dcalls
    /\ UNCHANGED <<chainParams, blockIndex, cachedBlake3WorkDiffAnchor, chainLock>>
    /\ UNCHANGED <<codecVars, hashVars, workVars, dagVars>>

\* The loop over the candidates, which reads the block index only.
SearchAnchor(t) ==
    /\ threads[t].pc = "search"
    /\ LET finalNodeHeight == calcWantHeight(chainParams.StakeValidationHeight,
                                             chainParams.RuleChangeActivationInterval,
                                             blockIndex[threads[t].prevNode].height + 1)
           candidate == Ancestor(blockIndex, threads[t].prevNode, finalNodeHeight)
       IN  threads' = [threads EXCEPT
                          ![t].pc = "store",
                          ![t].anchor = FindAnchor(chainParams, blockIndex, candidate,
                                                   threads[t].anchor)]
    /\ UNCHANGED <<chainParams, blockIndex, cachedBlake3WorkDiffAnchor, dcalls, chainLock>>
    /\ UNCHANGED <<codecVars, hashVars, workVars, dagVars>>

\* b.cachedBlake3WorkDiffAnchor.Store(anchor) when an anchor was found, and
\* the return.
StoreAnchor(t) ==
    /\ threads[t].pc = "store"
    /\ cachedBlake3WorkDiffAnchor' =
           (IF threads[t].anchor # 0 THEN threads[t].anchor ELSE cachedBlake3WorkDiffAnchor)
    /\ dcalls' = Append(dcalls, AnchorReturn(t, threads[t].anchor))
    /\ threads' = [threads EXCEPT ![t] = IdleThread]
    /\ UNCHANGED <<chainParams, blockIndex, chainLock>>
    /\ UNCHANGED <<codecVars, hashVars, workVars, dagVars>>

AnchorNext ==
    \E t \in AnchorThreads :
        EnterAnchor(t) \/ LoadAnchor(t) \/ SearchAnchor(t) \/ StoreAnchor(t)

SpecAnchor == AnchorInit /\ [][AnchorNext]_vars

\* C23: under any sequence or interleaving of blake3WorkDiffAnchor calls for
\* prevNodes on different branches, each with the agenda active for the block
\* after its prevNode, every call returns an ancestor of its own prevNode
\* that equals what a computation from an empty cache returns; a cached
\* anchor that is no ancestor of prevNode is never returned.
C23_AnchorOfOwnBranch ==
    \A i \in DOMAIN dcalls :
        dcalls[i].op = "blake3WorkDiffAnchor" =>
            /\ dcalls[i].out # 0
            /\ IsAncestorOf(blockIndex, dcalls[i].out, dcalls[i].node)
            /\ dcalls[i].out =
                   blake3WorkDiffAnchor(chainParams, blockIndex, 0, dcalls[i].node).anchor
            /\ (dcalls[i].cached # 0
                   /\ ~IsAncestorOf(blockIndex, dcalls[i].cached, dcalls[i].node)) =>
                  dcalls[i].out # dcalls[i].cached

\* Two calls for nodes of different branches overlapped: both loaded the
\* same cache and searched, the first to return stored the anchor of its
\* branch, and the second one's store replaced it with the other branch's.
C23_Witness ==
    /\ Len(dcalls) = 2
    /\ dcalls[1].op = "blake3WorkDiffAnchor"
    /\ dcalls[2].op = "blake3WorkDiffAnchor"
    /\ dcalls[1].thread # dcalls[2].thread
    /\ dcalls[1].out # dcalls[2].out
    /\ dcalls[1].cached # dcalls[1].out
    /\ dcalls[2].cached = dcalls[1].cached
    /\ ~IsAncestorOf(blockIndex, dcalls[1].out, dcalls[2].node)
    /\ cachedBlake3WorkDiffAnchor = dcalls[2].out

\* A call returned the anchor it found although the cache it had loaded held
\* the anchor of the other branch.
CachedNonAncestorReplaced ==
    \E i \in DOMAIN dcalls :
        /\ dcalls[i].op = "blake3WorkDiffAnchor"
        /\ dcalls[i].cached # 0
        /\ ~IsAncestorOf(blockIndex, dcalls[i].cached, dcalls[i].node)

-----------------------------------------------------------------------------
(* The public queries under the chain lock: two goroutines call            *)
(* CalcNextRequiredDifficulty, CalcNextRequiredStakeDifficulty or          *)
(* EstimateNextStakeDifficulty, each as the steps LookupNode, Lock, the    *)
(* calculation, Unlock.  A panic leaves the function at once (no call of   *)
(* Unlock is deferred).                                                    *)

LockThreads == {1, 2}

Queries ==
    {"CalcNextRequiredDifficulty", "CalcNextRequiredStakeDifficulty",
     "EstimateNextStakeDifficulty"}

\* The blocks a query is made for: 0 is a hash the index does not know.
QueryNodes(ix) ==
    {0} \cup {n \in Nodes(ix) : ix[n].height \in {MainActivation - 1, MaxHeight}}

\* The block for which b.isBlake3PowAgendaActive returns an error, if any.
FailingLookups(ix) ==
    {0} \cup {n \in Nodes(ix) : ix[n].height \in {MainActivation - 2, MaxHeight}}

\* What a query returns or how it ends otherwise.
QueryValue(v) == [kind |-> "value", value |-> v]

QueryError == [kind |-> "error", value |-> 0]

QueryPanic == [kind |-> "panic", value |-> 0]

\* unknownBlockError(hash)
UnknownBlock == [kind |-> "unknown block", value |-> 0]

RECURSIVE AnchorLookupFails(_, _, _, _)
\* The loop of blake3WorkDiffAnchor from candidate on reaches a candidate
\* for whose parent the agenda state lookup fails.
AnchorLookupFails(p, ix, candidate, failing) ==
    IF candidate = 0 THEN FALSE
    ELSE IF ix[candidate].parent = 0 THEN FALSE
    ELSE IF ix[candidate].parent = failing THEN TRUE
    ELSE IF ~ix[ix[candidate].parent].blake3Active THEN FALSE
    ELSE AnchorLookupFails(p, ix,
                           RelativeAncestor(ix, candidate, p.RuleChangeActivationInterval),
                           failing)

\* b.calcNextRequiredDifficulty(prevNode, newBlockTime) where the agenda
\* state lookup fails for the block failing: how the call ends and the
\* anchor cache afterwards.
calcNextRequiredDifficulty(p, ix, cached, failing, prevNode, newBlockTime) ==
    LET finalNodeHeight == calcWantHeight(p.StakeValidationHeight,
                                          p.RuleChangeActivationInterval,
                                          ix[prevNode].height + 1)
    IN  IF prevNode = failing THEN [out |-> QueryError, cache |-> cached]
        ELSE IF ~ix[prevNode].blake3Active
        THEN [out |-> QueryValue(calcNextBlake256Diff(p, ix, prevNode, newBlockTime).bits),
              cache |-> cached]
        ELSE IF ~p.Blake3ForcedActive /\ ~AnchorHit(ix, cached, prevNode)
                /\ AnchorLookupFails(p, ix, Ancestor(ix, prevNode, finalNodeHeight), failing)
        THEN [out |-> QueryPanic, cache |-> cached]
        ELSE CHOOSE r \in {[out |-> IF d.panic THEN QueryPanic ELSE QueryValue(d.bits),
                            cache |-> d.cache] :
                           d \in {calcNextBlake3Diff(p, ix, cached, prevNode)}} : TRUE

\* The calculation a query makes between Lock and Unlock.
QueryWalk(p, ix, cached, query, node, failing, deployment, newTickets) ==
    IF query = "CalcNextRequiredDifficulty"
    THEN calcNextRequiredDifficulty(p, ix, cached, failing, node, 2000)
    ELSE IF query = "CalcNextRequiredStakeDifficulty"
    THEN CHOOSE r \in {[out |-> IF d.panic THEN QueryPanic ELSE QueryValue(d.ret),
                        cache |-> cached] :
                       d \in {calcNextRequiredStakeDifficulty(p, ix, deployment, node)}} : TRUE
    ELSE CHOOSE r \in {[out |-> IF d.panic THEN QueryPanic
                                ELSE IF d.err THEN QueryError ELSE QueryValue(d.ret),
                        cache |-> cached] :
                       d \in {estimateNextStakeDifficulty(p, ix, deployment, node,
                                                          newTickets, FALSE)}} : TRUE

\* What the environment of a query decides: the block whose agenda lookup
\* fails, the state of the stake difficulty deployment and the tickets an
\* estimate is asked for.
QueryInputs(ix, query) ==
    IF query = "CalcNextRequiredDifficulty"
    THEN [failing : FailingLookups(ix), deployment : {"none"}, newTickets : {0}]
    ELSE IF query = "CalcNextRequiredStakeDifficulty"
    THEN [failing : {0}, deployment : DeploymentStates, newTickets : {0}]
    ELSE [failing : {0}, deployment : DeploymentStates, newTickets : {0, 9}]

LockProfiles ==
    [time : {"schedule"}, bits : {486604799}, sbits : {16}, pool : {8},
     growth : {0}, fresh : {2}]

LockInit ==
    /\ chainParams = ScaledParams
    /\ \E f \in LockProfiles : blockIndex = IndexOf(f)
    /\ cachedBlake3WorkDiffAnchor = 0
    /\ dcalls = <<>>
    /\ chainLock = 0
    /\ threads = [t \in LockThreads |->
                     [pc |-> "idle", query |-> "none", node |-> 0, out |-> NoResult]]
    /\ CodecIdle
    /\ HashIdle
    /\ WorkIdle
    /\ DagIdle

\* A goroutine calls a query: b.index.LookupNode(hash) and CanValidate, and
\* the return of unknownBlockError before the lock is touched.
CallQuery(t) ==
    /\ threads[t].pc = "idle"
    /\ \E query \in Queries, node \in QueryNodes(blockIndex) :
          threads' = [threads EXCEPT ![t] =
                         IF node = 0
                         THEN [pc |-> "returned", query |-> query, node |-> node,
                               out |-> UnknownBlock]
                         ELSE [pc |-> "lock", query |-> query, node |-> node,
                               out |-> NoResult]]
    /\ UNCHANGED <<chainParams, blockIndex, cachedBlake3WorkDiffAnchor, dcalls, chainLock>>
    /\ UNCHANGED <<codecVars, hashVars, workVars, dagVars>>

\* b.chainLock.Lock()
AcquireChainLock(t) ==
    /\ threads[t].pc = "lock"
    /\ chainLock = 0
    /\ chainLock' = t
    /\ threads' = [threads EXCEPT ![t].pc = "walking"]
    /\ UNCHANGED <<chainParams, blockIndex, cachedBlake3WorkDiffAnchor, dcalls>>
    /\ UNCHANGED <<codecVars, hashVars, workVars, dagVars>>

\* The calculation with its ancestor walks.  A panic ends the call here.
WalkAncestors(t) ==
    /\ threads[t].pc = "walking"
    /\ \E in \in QueryInputs(blockIndex, threads[t].query) :
          \E r \in {QueryWalk(chainParams, blockIndex, cachedBlake3WorkDiffAnchor,
                              threads[t].query, threads[t].node, in.failing,
                              in.deployment, in.newTickets)} :
             /\ threads' = [threads EXCEPT
                               ![t].pc = IF r.out.kind = "panic" THEN "panicked"
                                         ELSE "unlock",
                               ![t].out = r.out]
             /\ cachedBlake3WorkDiffAnchor' = r.cache
    /\ UNCHANGED <<chainParams, blockIndex, dcalls, chainLock>>
    /\ UNCHANGED <<codecVars, hashVars, workVars, dagVars>>

\* b.chainLock.Unlock() and the return.
ReleaseChainLock(t) ==
    /\ threads[t].pc = "unlock"
    /\ chainLock' = 0
    /\ threads' = [threads EXCEPT ![t].pc = "returned"]
    /\ UNCHANGED <<chainParams, blockIndex, cachedBlake3WorkDiffAnchor, dcalls>>
    /\ UNCHANGED <<codecVars, hashVars, workVars, dagVars>>

LockNext ==
    \E t \in LockThreads :
        CallQuery(t) \/ AcquireChainLock(t) \/ WalkAncestors(t) \/ ReleaseChainLock(t)

SpecLock == LockInit /\ [][LockNext]_vars

\* Every ancestor walk runs while the lock is held by the walking goroutine,
\* and at most one walk runs at a time.
WalksUnderChainLock ==
    /\ \A t \in LockThreads : threads[t].pc \in {"walking", "unlock"} => chainLock = t
    /\ Cardinality({t \in LockThreads : threads[t].pc = "walking"}) <= 1

\* A call that returned, with a value, an error or the unknown-block error,
\* does not hold the lock.
ReturnedWithoutChainLock ==
    \A t \in LockThreads : threads[t].pc = "returned" => chainLock # t

\* C26: in the three public queries every ancestor walk runs while chainLock
\* is held, at most one walk runs at a time, and the lock is released on
\* every path by which a call ends: normal return, error return,
\* unknown-block return before locking, and the failure of the agenda lookup
\* inside the anchor search.
C26_ChainLockDiscipline ==
    /\ WalksUnderChainLock
    /\ \A t \in LockThreads :
           threads[t].pc \in {"returned", "panicked"} => chainLock # t

\* A query ended in the anchor search's panic while the other goroutine waits
\* for the lock.
PanickedUnderChainLock ==
    \E t, u \in LockThreads :
        /\ threads[t].pc = "panicked"
        /\ threads[t].query = "CalcNextRequiredDifficulty"
        /\ threads[u].pc = "lock"

-----------------------------------------------------------------------------
(* Further claims about the stake difficulty estimates.                    *)

EstimateCalls == CallsOf("EstimateNextStakeDifficulty")

\* The node of call i is at or above the activation height and the last
\* block before a stake retarget.
LastBeforeStakeRetarget(i) ==
    /\ dcalls[i].node # 0
    /\ blockIndex[dcalls[i].node].height >= chainParams.CoinbaseMaturity + 1
    /\ (blockIndex[dcalls[i].node].height + 1) % chainParams.StakeDiffWindowSize = 0

\* C27: for every curNode at or above activation that is the last block
\* before a stake retarget, the estimate with zero new tickets and
\* useMaxTickets false is exactly what the real calculation returns for
\* curNode, under V1 and under V2.
C27_EstimateMirrorsAtBoundary ==
    \A i \in EstimateCalls :
        (LastBeforeStakeRetarget(i) /\ dcalls[i].newTickets = 0
            /\ ~dcalls[i].useMaxTickets /\ dcalls[i].deployment # "none") =>
            dcalls[i].out =
                Estimate(IF dcalls[i].deployment = "active"
                         THEN calcNextRequiredStakeDifficultyV2(chainParams, blockIndex,
                                                                dcalls[i].node)
                         ELSE calcNextRequiredStakeDifficultyV1(chainParams, blockIndex,
                                                                dcalls[i].node))

\* An estimate at a boundary returned a retargeted price other than
\* curNode.sbits, under the legacy algorithm.
C27_Witness ==
    \E i \in EstimateCalls :
        /\ LastBeforeStakeRetarget(i)
        /\ dcalls[i].newTickets = 0
        /\ ~dcalls[i].useMaxTickets
        /\ dcalls[i].deployment = "started"
        /\ ~dcalls[i].out.panic
        /\ ~dcalls[i].out.err
        /\ dcalls[i].out.ret # blockIndex[dcalls[i].node].sbits

\* The same under the new algorithm.
EstimateV2AtBoundaryRetargets ==
    \E i \in EstimateCalls :
        /\ LastBeforeStakeRetarget(i)
        /\ dcalls[i].newTickets = 0
        /\ ~dcalls[i].useMaxTickets
        /\ dcalls[i].deployment = "active"
        /\ ~dcalls[i].out.panic
        /\ dcalls[i].out.ret # blockIndex[dcalls[i].node].sbits

\* The retarget height after the node of call i, as the legacy estimate
\* computes it.
NextAdjHeightAt(i) ==
    ((blockIndex[dcalls[i].node].height \div chainParams.StakeDiffWindowSize) + 1)
        * chainParams.StakeDiffWindowSize

\* The bogus nodes the legacy estimate of call i puts on top of curNode.
FakeNodesAt(i) ==
    FakeNodes(chainParams, blockIndex, dcalls[i].node, NextAdjHeightAt(i),
              dcalls[i].newTickets)

RECURSIVE FreshStakeOf(_, _)
\* The fresh stake of the first n of the nodes.
FreshStakeOf(nodes, n) ==
    IF n = 0 THEN 0 ELSE FreshStakeOf(nodes, n - 1) + nodes[n].freshStake

\* Call i is a legacy estimate for a node at or above the activation height
\* and not at a retarget boundary, with a ticket count the function accepts.
LegacyEstimateBetweenRetargets(i) ==
    /\ dcalls[i].deployment = "started"
    /\ ~dcalls[i].useMaxTickets
    /\ blockIndex[dcalls[i].node].height >= chainParams.CoinbaseMaturity + 1
    /\ (blockIndex[dcalls[i].node].height + 1) % chainParams.StakeDiffWindowSize # 0
    /\ dcalls[i].newTickets >= 0
    /\ ~dcalls[i].out.err

\* The synthetic blocks carry the tickets that fit into them: each at most
\* MaxFreshStakePerBlock, together the requested count or the capacity of
\* the blocks, and the real nodes stay as they are.
FakeStakeUpToCapacity ==
    \A i \in EstimateCalls :
        LegacyEstimateBetweenRetargets(i) =>
            LET fakes == FakeNodesAt(i)
            IN  /\ \A j \in DOMAIN fakes :
                       fakes[j].freshStake <= chainParams.MaxFreshStakePerBlock
                /\ FreshStakeOf(fakes, Len(fakes)) =
                       MinOf(dcalls[i].newTickets,
                             Len(fakes) * chainParams.MaxFreshStakePerBlock)
                /\ SubSeq(blockIndex \o fakes, 1, Len(blockIndex)) = blockIndex

\* C28: in the legacy stake estimate, for every curNode not at a retarget
\* boundary and every ticket count from 0 to the maximum the function
\* accepts, the fresh stake of the synthetic blocks sums to exactly
\* ticketsInWindow, each synthetic block carries at most
\* MaxFreshStakePerBlock, and curNode and its ancestors are unmodified.
C28_FakeStakeSumsToTickets ==
    \A i \in EstimateCalls :
        LegacyEstimateBetweenRetargets(i) =>
            LET fakes == FakeNodesAt(i)
            IN  /\ \A j \in DOMAIN fakes :
                       fakes[j].freshStake <= chainParams.MaxFreshStakePerBlock
                /\ FreshStakeOf(fakes, Len(fakes)) = dcalls[i].newTickets
                /\ SubSeq(blockIndex \o fakes, 1, Len(blockIndex)) = blockIndex

\* A legacy estimate between retargets accepted more tickets than zero.
LegacyEstimateWithTickets ==
    \E i \in EstimateCalls :
        /\ LegacyEstimateBetweenRetargets(i)
        /\ dcalls[i].newTickets > 0
        /\ Len(FakeNodesAt(i)) > 0

-----------------------------------------------------------------------------
(* The loops of the legacy retargets, one iteration at a time: the walk    *)
(* over the ancestors that fills windowChanges in calcNextBlake256Diff and *)
(* the first such walk of calcNextRequiredStakeDifficultyV1, followed by   *)
(* the sum over the slots and the division by the weights.                 *)

\* The parameters with two and with three windows; with three windows of two
\* blocks every walk from a height below five reaches the genesis block.
WalkParams ==
    {ScaledParams, [ScaledParams EXCEPT !.WorkDiffWindows = 3, !.StakeDiffWindows = 3]}

WalkProfiles ==
    [time : {"schedule", "slow"}, bits : {486604799}, sbits : {16}, pool : {8},
     growth : {0, 2}, fresh : {2}]

\* The goroutine before it enters a loop.
NoWalk ==
    [pc |-> "idle", node |-> 0, i |-> 0, oldNode |-> 0, recentTime |-> 0,
     windowPeriod |-> 0, weights |-> 0, windowChanges |-> <<>>, stores |-> <<>>]

\* A slot of windowChanges: the ratio num * 2^32 / target shifted left by
\* shift bits, held by its operands.
WindowChange(num, shift) == [num |-> num, shift |-> shift]

\* The locals before the first iteration: windowChanges is a slice of nil
\* pointers (stores counts the assignments to each slot).
EnterWalk(pc, ix, node, windows) ==
    [pc |-> pc, node |-> node, i |-> 0, oldNode |-> node,
     recentTime |-> ix[node].timestamp, windowPeriod |-> 0, weights |-> 0,
     windowChanges |-> [k \in 1..windows |-> WindowChange(0, 0)] \o <<>>,
     stores |-> [k \in 1..windows |-> 0] \o <<>>]

\* "i%params.WorkDiffWindowSize == 0" without "&& i != 0"
Blake256WindowEndsFromZero(p, i) == i % p.WorkDiffWindowSize = 0

\* "i%params.WorkDiffWindowSize == 0 && i != 0"
Blake256WindowEnds(p, i) == i % p.WorkDiffWindowSize = 0 /\ i # 0

\* "(i+1)%b.chainParams.StakeDiffWindowSize == 0"
StakeWindowEnds(p, i) == (i + 1) % p.StakeDiffWindowSize = 0

\* The locals after the ratio of num was weighted and stored in slot
\* windowPeriod; the assignment to a slot beyond the slice panics.
StoreWindow(w, windows, alpha, num) ==
    IF w.windowPeriod >= windows THEN [w EXCEPT !.pc = "panicked"]
    ELSE [w EXCEPT
             !.weights = @ + 2 ^ ((windows - w.windowPeriod) * alpha),
             !.windowChanges[w.windowPeriod + 1] =
                 WindowChange(num, (windows - w.windowPeriod) * alpha),
             !.stores[w.windowPeriod + 1] = @ + 1,
             !.windowPeriod = @ + 1]

\* "if oldNode.parent != nil { oldNode = oldNode.parent }" and i++
StepBack(ix, w) ==
    [w EXCEPT !.oldNode = IF ix[w.oldNode].parent # 0 THEN ix[w.oldNode].parent ELSE @,
              !.i = @ + 1]

\* One iteration of the loop of calcNextBlake256Diff.
Blake256Iteration(p, ix, w) ==
    LET olderTime == ix[w.oldNode].timestamp
        timeDifference == IF ix[w.oldNode].height = 0 THEN p.TargetTimespan
                          ELSE w.recentTime - olderTime
        stored == IF Blake256WindowEnds(p, w.i)
                  THEN [StoreWindow(w, p.WorkDiffWindows, p.WorkDiffAlpha, timeDifference)
                           EXCEPT !.recentTime = olderTime]
                  ELSE w
    IN  IF stored.pc = "panicked" THEN stored
        ELSE IF w.i = p.WorkDiffWindowSize * p.WorkDiffWindows
        THEN [stored EXCEPT !.pc = "sum"]
        ELSE StepBack(ix, stored)

\* One iteration of the first loop of calcNextRequiredStakeDifficultyV1.
StakeV1Iteration(p, ix, w) ==
    LET targetForTicketPool == p.TicketsPerBlock * p.TicketPoolSize
        skew == ((ix[w.oldNode].poolSize - targetForTicketPool) * p.TicketPoolSizeWeight)
                    + targetForTicketPool
        stored == IF StakeWindowEnds(p, w.i)
                  THEN StoreWindow(w, p.StakeDiffWindows, p.StakeDiffAlpha,
                                   IF skew <= 0 THEN 1 ELSE skew)
                  ELSE w
    IN  IF stored.pc = "panicked" THEN stored
        ELSE IF w.i + 1 = p.StakeDiffWindowSize * p.StakeDiffWindows
        THEN [stored EXCEPT !.pc = "sum", !.i = w.i + 1]
        ELSE StepBack(ix, stored)

\* The sum over the slots and the division by the weights: a nil slot and
\* a zero divisor panic.
SumWindows(w, windows) ==
    [panic |-> (\E k \in 1..windows : w.stores[k] = 0) \/ w.weights = 0]

\* What the statements after the loop compute from the slots: the weighted
\* sum over the weights, times the old difficulty, without the padding.
NextOfWindows(windowChanges, windows, weights, target, oldDiffBig) ==
    LET changes == [k \in 1..windows |->
                       BigLsh(BigDiv(BigLsh(NewInt(windowChanges[k].num), 32),
                                     NewInt(target)),
                              windowChanges[k].shift)]
    IN  BigRsh(BigMul(BigDiv(SumOf(changes, windows), NewInt(weights)), oldDiffBig), 32)

WalkInit ==
    /\ chainParams \in WalkParams
    /\ \E f \in WalkProfiles : blockIndex = IndexOf(f)
    /\ cachedBlake3WorkDiffAnchor = 0
    /\ dcalls = <<>>
    /\ chainLock = 0
    /\ threads = <<NoWalk>>
    /\ CodecIdle
    /\ HashIdle
    /\ WorkIdle
    /\ DagIdle

\* calcNextBlake256Diff reaches its loop for a prevNode before a retarget
\* height.
EnterBlake256Loop ==
    /\ threads[1].pc = "idle"
    /\ dcalls = <<>>
    /\ \E prevNode \in {n \in Nodes(blockIndex) :
                          (blockIndex[n].height + 1) % chainParams.WorkDiffWindowSize = 0} :
          threads' = <<EnterWalk("blake256", blockIndex, prevNode,
                                 chainParams.WorkDiffWindows)>>
    /\ UNCHANGED <<chainParams, blockIndex, cachedBlake3WorkDiffAnchor, dcalls, chainLock>>
    /\ UNCHANGED <<codecVars, hashVars, workVars, dagVars>>

\* calcNextRequiredStakeDifficultyV1 reaches its loop for a curNode at or
\* above the activation height before a retarget height.
EnterStakeV1Loop ==
    /\ threads[1].pc = "idle"
    /\ dcalls = <<>>
    /\ \E curNode \in {n \in Nodes(blockIndex) :
                          /\ blockIndex[n].height >= chainParams.CoinbaseMaturity + 1
                          /\ (blockIndex[n].height + 1)
                                 % chainParams.StakeDiffWindowSize = 0} :
          threads' = <<EnterWalk("stakeV1", blockIndex, curNode,
                                 chainParams.StakeDiffWindows)>>
    /\ UNCHANGED <<chainParams, blockIndex, cachedBlake3WorkDiffAnchor, dcalls, chainLock>>
    /\ UNCHANGED <<codecVars, hashVars, workVars, dagVars>>

StepBlake256Loop ==
    /\ threads[1].pc = "blake256"
    /\ \E w \in {Blake256Iteration(chainParams, blockIndex, threads[1])} :
          threads' = <<IF w.pc = "sum" THEN [w EXCEPT !.pc = "sum256"] ELSE w>>
    /\ UNCHANGED <<chainParams, blockIndex, cachedBlake3WorkDiffAnchor, dcalls, chainLock>>
    /\ UNCHANGED <<codecVars, hashVars, workVars, dagVars>>

StepStakeV1Loop ==
    /\ threads[1].pc = "stakeV1"
    /\ \E w \in {StakeV1Iteration(chainParams, blockIndex, threads[1])} :
          threads' = <<IF w.pc = "sum" THEN [w EXCEPT !.pc = "sumV1"] ELSE w>>
    /\ UNCHANGED <<chainParams, blockIndex, cachedBlake3WorkDiffAnchor, dcalls, chainLock>>
    /\ UNCHANGED <<codecVars, hashVars, workVars, dagVars>>

\* The statements after the loop, up to the shift that removes the padding.
SumWindowChanges ==
    /\ threads[1].pc \in {"sum256", "sumV1"}
    /\ LET w == threads[1]
           blake256 == w.pc = "sum256"
           windows == IF blake256 THEN chainParams.WorkDiffWindows
                      ELSE chainParams.StakeDiffWindows
       IN  \E s \in {SumWindows(w, windows)} :
              /\ dcalls' = <<[op |-> IF blake256 THEN "blake256 walk" ELSE "stakeV1 walk",
                              node |-> w.node, steps |-> w.i, windows |-> windows,
                              stores |-> w.stores, weights |-> w.weights,
                              windowChanges |-> w.windowChanges,
                              genesis |-> blockIndex[w.oldNode].height = 0,
                              panic |-> s.panic]>>
              /\ threads' = <<[w EXCEPT !.pc = IF s.panic THEN "panicked" ELSE "done"]>>
    /\ UNCHANGED <<chainParams, blockIndex, cachedBlake3WorkDiffAnchor, chainLock>>
    /\ UNCHANGED <<codecVars, hashVars, workVars, dagVars>>

WalkNext ==
    \/ EnterBlake256Loop
    \/ EnterStakeV1Loop
    \/ StepBlake256Loop
    \/ StepStakeV1Loop
    \/ SumWindowChanges

SpecWalk == WalkInit /\ [][WalkNext]_vars

\* A function that has entered its loop keeps running: every statement of a
\* goroutine is executed eventually.
SpecWalkFair ==
    /\ SpecWalk
    /\ WF_vars(StepBlake256Loop)
    /\ WF_vars(StepStakeV1Loop)
    /\ WF_vars(SumWindowChanges)

\* The loop counter stays within the nodes to traverse, no statement panics,
\* and a finished walk made windows * windowSize steps, stored one ratio in
\* every slot and divided by a weight other than zero.
WalkIsTotal ==
    /\ threads[1].pc # "panicked"
    /\ threads[1].pc = "blake256" =>
           threads[1].i <= chainParams.WorkDiffWindowSize * chainParams.WorkDiffWindows
    /\ threads[1].pc = "stakeV1" =>
           threads[1].i < chainParams.StakeDiffWindowSize * chainParams.StakeDiffWindows
    /\ \A c \in Range(dcalls) :
           /\ ~c.panic
           /\ c.steps = c.windows * (IF c.op = "blake256 walk"
                                     THEN chainParams.WorkDiffWindowSize
                                     ELSE chainParams.StakeDiffWindowSize)
           /\ \A k \in 1..c.windows : c.stores[k] = 1
           /\ c.weights # 0

Blake256WalkAgrees ==
    \A c \in Range(dcalls) :
        (c.op = "blake256 walk" /\ ~c.panic) =>
            NextOfWindows(c.windowChanges, c.windows, c.weights, chainParams.TargetTimespan,
                          CompactToBig(blockIndex[c.node].bits))
                = Blake256Target(chainParams, blockIndex, c.node).computed

-----------------------------------------------------------------------------
(* The legacy work retarget on a chain that is on target.                  *)

\* Every window period the retarget after node n looks at took exactly
\* TargetTimespan, or ends at the genesis block.
WindowsOnTarget(p, ix, n) ==
    \A k \in 1..p.WorkDiffWindows :
        LET oldNode == WalkBack(ix, n, k * p.WorkDiffWindowSize)
            recent == WalkBack(ix, n, (k - 1) * p.WorkDiffWindowSize)
        IN  \/ ix[oldNode].height = 0
            \/ ix[recent].timestamp - ix[oldNode].timestamp = p.TargetTimespan

\* bits is what BigToCompact gives for the target it encodes, and the
\* target is not above the proof-of-work limit.
CanonicalUnderLimit(p, bits) ==
    /\ BigToCompact(CompactToBig(bits)) = bits
    /\ BigCmp(CompactToBig(bits), p.PowLimit) <= 0

\* C30: at a retarget height, when every window period took TargetTimespan
\* (or ends at the genesis block) and prevNode.bits is the canonical compact
\* encoding of a target not above PowLimit, calcNextBlake256Diff returns
\* prevNode.bits.
C30_OnTargetFixedPoint ==
    \A i \in Blake256Calls :
        (/\ WorkRetargetAt(i)
         /\ WindowsOnTarget(chainParams, blockIndex, dcalls[i].node)
         /\ CanonicalUnderLimit(chainParams, blockIndex[dcalls[i].node].bits)) =>
            dcalls[i].out.bits = blockIndex[dcalls[i].node].bits

\* A retarget on the schedule with both window periods above the genesis
\* block returned the bits of the node.
C30_Witness ==
    \E i \in Blake256Calls :
        /\ WorkRetargetAt(i)
        /\ WindowsOnTarget(chainParams, blockIndex, dcalls[i].node)
        /\ CanonicalUnderLimit(chainParams, blockIndex[dcalls[i].node].bits)
        /\ blockIndex[WalkBack(blockIndex, dcalls[i].node,
                               chainParams.WorkDiffWindowSize
                                   * chainParams.WorkDiffWindows)].height > 0
        /\ blockIndex[dcalls[i].node].bits = 469827583
        /\ dcalls[i].out.bits = 469827583

\* A retarget on target whose node carries bits that are not canonical
\* returned other bits.
OnTargetNotCanonicalMoves ==
    \E i \in Blake256Calls :
        /\ WorkRetargetAt(i)
        /\ WindowsOnTarget(chainParams, blockIndex, dcalls[i].node)
        /\ ~CanonicalUnderLimit(chainParams, blockIndex[dcalls[i].node].bits)
        /\ dcalls[i].out.bits # blockIndex[dcalls[i].node].bits

\* A retarget whose window crosses onto the side branch is off target and
\* returned other bits.
OffTargetMoves ==
    \E i \in Blake256Calls :
        /\ WorkRetargetAt(i)
        /\ ~WindowsOnTarget(chainParams, blockIndex, dcalls[i].node)
        /\ CanonicalUnderLimit(chainParams, blockIndex[dcalls[i].node].bits)
        /\ dcalls[i].out.bits # blockIndex[dcalls[i].node].bits
====
